---- MODULE Spec2Model ----
(***************************************************************************)
(* Worker-onboarding backend: document identity verification               *)
(* (services/document_verifier.py), its persistence by the form API        *)
(* (api/form.py, db/crud.py) and the experience consolidation              *)
(* (db/crud.py).                                                           *)
(*                                                                         *)
(* Text values are sequences of one-character strings.  SQL NULL / Python  *)
(* None and the empty string are both the empty sequence for the identity  *)
(* fields: the code only ever tests them for truthiness.  For the status   *)
(* columns NULL is the string "NULL", distinct from 'pending'.             *)
(***************************************************************************)
EXTENDS Integers, Sequences, FiniteSets, TLC

\* ------------------------------------------------------------------------
\* Characters and strings
\* ------------------------------------------------------------------------
LowerLetters == <<"a","b","c","d","e","f","g","h","i","j","k","l","m",
                  "n","o","p","q","r","s","t","u","v","w","x","y","z">>

UpperLetters == <<"A","B","C","D","E","F","G","H","I","J","K","L","M",
                  "N","O","P","Q","R","S","T","U","V","W","X","Y","Z">>

Digits == <<"0","1","2","3","4","5","6","7","8","9">>

IsUpperLetter(c) == \E i \in DOMAIN UpperLetters : UpperLetters[i] = c

IsDigit(c) == \E i \in DOMAIN Digits : Digits[i] = c

DigitValue(c) == (CHOOSE i \in DOMAIN Digits : Digits[i] = c) - 1

\* Whitespace of str.strip() and of the regex class \s.
IsSpace(c) == c = " "

\* str.upper(), one character.
CharUpper(c) ==
    IF \E i \in DOMAIN LowerLetters : LowerLetters[i] = c
    THEN UpperLetters[CHOOSE i \in DOMAIN LowerLetters : LowerLetters[i] = c]
    ELSE c

\* str.lower(), one character.
CharLower(c) ==
    IF \E i \in DOMAIN UpperLetters : UpperLetters[i] = c
    THEN LowerLetters[CHOOSE i \in DOMAIN UpperLetters : UpperLetters[i] = c]
    ELSE c

StrUpper(s) == [i \in DOMAIN s |-> CharUpper(s[i])]

StrLower(s) == [i \in DOMAIN s |-> CharLower(s[i])]

RECURSIVE LStrip(_)
LStrip(s) == IF s # <<>> /\ IsSpace(Head(s)) THEN LStrip(Tail(s)) ELSE s

RECURSIVE RStrip(_)
RStrip(s) ==
    IF s # <<>> /\ IsSpace(s[Len(s)]) THEN RStrip(SubSeq(s, 1, Len(s) - 1)) ELSE s

\* str.strip()
Strip(s) == RStrip(LStrip(s))

\* re.sub(r'[^A-Z\s]', '', s)
KeepLetterOrSpace(c) == IsUpperLetter(c) \/ IsSpace(c)

RemoveSpecial(s) == SelectSeq(s, KeepLetterOrSpace)

\* re.sub(r'\s+', ' ', s): every run of whitespace becomes one space.
RECURSIVE CollapseSpaces(_)
CollapseSpaces(s) ==
    IF s = <<>> THEN <<>>
    ELSE IF IsSpace(Head(s))
         THEN <<" ">> \o CollapseSpaces(LStrip(s))
         ELSE <<Head(s)>> \o CollapseSpaces(Tail(s))

\* ------------------------------------------------------------------------
\* services/document_verifier.py
\* ------------------------------------------------------------------------
normalize_name(name) ==
    IF name = <<>> THEN <<>>
    ELSE Strip(CollapseSpaces(RemoveSpecial(Strip(StrUpper(name)))))

\* difflib.SequenceMatcher.find_longest_match without junk: the longest block
\* a[i..i+k) = b[j..j+k) inside a[alo..ahi) x b[blo..bhi) (0-based, half
\* open), the earliest in a and then the earliest in b among the longest.
BlockMatches(a, b, i, j, k) ==
    \A d \in 0..(k - 1) : a[i + d + 1] = b[j + d + 1]

Largest(S) == CHOOSE x \in S : \A y \in S : y <= x

Smallest(S) == CHOOSE x \in S : \A y \in S : x <= y

\* besti, bestj, bestsize of find_longest_match, the size first.
LongestLen(a, b, alo, ahi, blo, bhi) ==
    Largest({k \in 0..(ahi - alo) :
               \E i \in alo..(ahi - k) : \E j \in blo..(bhi - k) :
                  BlockMatches(a, b, i, j, k)})

FirstInA(a, b, alo, ahi, blo, bhi, k) ==
    Smallest({i \in alo..(ahi - k) :
                \E j \in blo..(bhi - k) : BlockMatches(a, b, i, j, k)})

FirstInB(a, b, blo, bhi, i, k) ==
    Smallest({j \in blo..(bhi - k) : BlockMatches(a, b, i, j, k)})

BlockAt(a, b, blo, bhi, i, k) == <<i, FirstInB(a, b, blo, bhi, i, k), k>>

BlockOfLen(a, b, alo, ahi, blo, bhi, k) ==
    BlockAt(a, b, blo, bhi, FirstInA(a, b, alo, ahi, blo, bhi, k), k)

find_longest_match(a, b, alo, ahi, blo, bhi) ==
    BlockOfLen(a, b, alo, ahi, blo, bhi, LongestLen(a, b, alo, ahi, blo, bhi))

\* Sum of the sizes of SequenceMatcher.get_matching_blocks(): the longest
\* block m, then the blocks to its left and to its right.
RECURSIVE MatchingSize(_, _, _, _, _, _)
SizeAround(a, b, alo, ahi, blo, bhi, m) ==
    IF m[3] = 0 THEN 0
    ELSE m[3] + MatchingSize(a, b, alo, m[1], blo, m[2])
              + MatchingSize(a, b, m[1] + m[3], ahi, m[2] + m[3], bhi)

MatchingSize(a, b, alo, ahi, blo, bhi) ==
    IF alo >= ahi \/ blo >= bhi THEN 0
    ELSE SizeAround(a, b, alo, ahi, blo, bhi,
                    find_longest_match(a, b, alo, ahi, blo, bhi))

\* SequenceMatcher(None, a, b).ratio() = 2.0 * M / T as the fraction <<2M, T>>
\* (<<1, 1>> when both are empty).
ratio(a, b) ==
    IF Len(a) + Len(b) = 0 THEN <<1, 1>>
    ELSE <<2 * MatchingSize(a, b, 0, Len(a), 0, Len(b)), Len(a) + Len(b)>>

\* The default threshold 0.85 as a fraction.
ThresholdNum == 85
ThresholdDen == 100

\* fuzzy_match_names(name1, name2): [match, similarity], the similarity a
\* fraction <<num, den>>.
MutFuzzyAlwaysMatch(name1, name2) == [match |-> TRUE, similarity |-> <<1, 1>>]

\* match = similarity >= threshold
MutMatchAboveThreshold(similarity) ==
    [match |-> similarity[1] * ThresholdDen > ThresholdNum * similarity[2],
     similarity |-> similarity]

MatchBySimilarity(similarity) ==
    [match |-> similarity[1] * ThresholdDen >= ThresholdNum * similarity[2],
     similarity |-> similarity]

\* The comparison of the two normalized names.
MatchNormalized(norm1, norm2) ==
    IF norm1 = norm2 THEN [match |-> TRUE, similarity |-> <<1, 1>>]
    ELSE MatchBySimilarity(ratio(norm1, norm2))

fuzzy_match_names(name1, name2) ==
    IF name1 = <<>> \/ name2 = <<>> THEN [match |-> FALSE, similarity |-> <<0, 1>>]
    ELSE MatchNormalized(normalize_name(name1), normalize_name(name2))

\* str.replace of the separators '/', '.', ' ' by '-'.
ReplaceSeparators(s) ==
    [i \in DOMAIN s |-> IF s[i] \in {"/", ".", " "} THEN "-" ELSE s[i]]

\* str.split('-'): the list of the fields between hyphens.
RECURSIVE SplitHyphen(_)
SplitHyphen(s) ==
    IF \A i \in DOMAIN s : s[i] # "-" THEN <<s>>
    ELSE LET p == CHOOSE i \in DOMAIN s :
                     s[i] = "-" /\ \A j \in 1..(i - 1) : s[j] # "-"
         IN  <<SubSeq(s, 1, p - 1)>> \o SplitHyphen(SubSeq(s, p + 1, Len(s)))

\* str.zfill(2): zeros are inserted after a leading sign.
zfill2(s) ==
    IF Len(s) >= 2 THEN s
    ELSE IF s = <<>> THEN <<"0", "0">>
    ELSE IF s[1] \in {"+", "-"} THEN <<s[1], "0">>
    ELSE <<"0", s[1]>>

\* str.isdigit()
isdigit(s) == s # <<>> /\ \A i \in DOMAIN s : IsDigit(s[i])

\* int(year) of a two-character year: defined for two digits and for a sign
\* followed by a digit; anything else raises ValueError.
IntParses2(s) ==
    \/ IsDigit(s[1]) /\ IsDigit(s[2])
    \/ s[1] \in {"+", "-"} /\ IsDigit(s[2])

Int2(s) ==
    IF IsDigit(s[1]) THEN 10 * DigitValue(s[1]) + DigitValue(s[2])
    ELSE IF s[1] = "-" THEN 0 - DigitValue(s[2])
    ELSE DigitValue(s[2])

\* "Handle 2-digit year": 19YY for years > 50, 20YY otherwise.
ExpandYear(year) ==
    IF Len(year) = 2
    THEN (IF Int2(year) > 50 THEN <<"1", "9">> ELSE <<"2", "0">>) \o year
    ELSE year

\* YYYY-MM-DD -> DD-MM-YYYY
FromYearFirst(year, month, day) ==
    [raised |-> FALSE,
     value  |-> zfill2(day) \o <<"-">> \o zfill2(month) \o <<"-">> \o year]

\* "Assume DD-MM-YYYY format"
MutDayFirstToIso(day, month, year) ==
    IF Len(year) = 2 /\ ~IntParses2(year)
    THEN [raised |-> TRUE, value |-> <<>>]
    ELSE [raised |-> FALSE,
          value  |-> ExpandYear(year) \o <<"-">> \o zfill2(month) \o <<"-">> \o
                     zfill2(day)]

FromDayFirst(day, month, year) ==
    IF Len(year) = 2 /\ ~IntParses2(year)
    THEN [raised |-> TRUE, value |-> <<>>]
    ELSE [raised |-> FALSE,
          value  |-> zfill2(day) \o <<"-">> \o zfill2(month) \o <<"-">> \o
                     ExpandYear(year)]

\* The separator-replaced string s and its fields parts.
FromParts(s, parts) ==
    IF Len(parts) # 3 THEN [raised |-> FALSE, value |-> s]
    ELSE IF Len(parts[1]) = 4 /\ isdigit(parts[1])
    THEN FromYearFirst(parts[1], parts[2], parts[3])
    ELSE FromDayFirst(parts[1], parts[2], parts[3])

FromReplaced(s) == FromParts(s, SplitHyphen(s))

\* normalize_date(date_str): [raised, value].
normalize_date(date_str) ==
    IF date_str = <<>> THEN [raised |-> FALSE, value |-> <<>>]
    ELSE FromReplaced(ReplaceSeparators(Strip(date_str)))

\* exact_match_dob(dob1, dob2): [raised, match].
MutDobAlwaysMatch(dob1, dob2) == [raised |-> FALSE, match |-> TRUE]

\* match = norm1 == norm2, of the two normalize_date results.
MutMatchMonthAndYear(norm1, norm2) ==
    IF norm1.raised \/ norm2.raised THEN [raised |-> TRUE, match |-> FALSE]
    ELSE [raised |-> FALSE,
          match  |-> SubSeq(norm1.value, 4, Len(norm1.value)) =
                     SubSeq(norm2.value, 4, Len(norm2.value))]

MatchNormalizedDates(norm1, norm2) ==
    IF norm1.raised \/ norm2.raised THEN [raised |-> TRUE, match |-> FALSE]
    ELSE [raised |-> FALSE, match |-> norm1.value = norm2.value]

exact_match_dob(dob1, dob2) ==
    IF dob1 = <<>> \/ dob2 = <<>> THEN [raised |-> FALSE, match |-> FALSE]
    ELSE MatchNormalizedDates(normalize_date(dob1), normalize_date(dob2))

\* round(name_similarity, 3), in thousandths (round-half-even).
Round3(r) ==
    LET q   == (1000 * r[1]) \div r[2]
        rem == (1000 * r[1]) % r[2]
    IN  IF 2 * rem > r[2] THEN q + 1
        ELSE IF 2 * rem = r[2] THEN q + (q % 2)
        ELSE q

\* overall_match = name_match and dob_match
MutOverallEither(name_match, dob_match) == name_match \/ dob_match

OverallMatch(name_match, dob_match) == name_match /\ dob_match

\* "Record comparison", from the results nm and dm of the two field checks.
ComparisonRecord(edu_doc, nm, dm) ==
    [document_id     |-> edu_doc.id,
     qualification   |-> edu_doc.qualification,
     name_match      |-> nm.match,
     name_similarity |-> Round3(nm.similarity),
     dob_match       |-> dm.match,
     overall_match   |-> OverallMatch(nm.match, dm.match)]

\* The comparison record of one educational document (one loop iteration).
Comparison(personal_name, personal_dob, edu_doc) ==
    ComparisonRecord(edu_doc,
                     fuzzy_match_names(personal_name, edu_doc.extracted_name),
                     exact_match_dob(personal_dob, edu_doc.extracted_dob))

\* The mismatch entries one loop iteration appends: the name entry, then the
\* dob entry.
MutMismatchNameOnly(c) ==
    IF ~c.name_match THEN <<[document_id |-> c.document_id, field |-> "name"]>>
    ELSE <<>>

MismatchesOf(c) ==
    (IF ~c.name_match THEN <<[document_id |-> c.document_id, field |-> "name"]>>
     ELSE <<>>)
    \o
    (IF ~c.dob_match THEN <<[document_id |-> c.document_id, field |-> "dob"]>>
     ELSE <<>>)

RECURSIVE FlattenMismatches(_)
FlattenMismatches(cs) ==
    IF cs = <<>> THEN <<>>
    ELSE MismatchesOf(Head(cs)) \o FlattenMismatches(Tail(cs))

\* "Determine overall status"
MutStatusAnyVerified(verified_count, total_count) ==
    IF verified_count > 0 THEN "verified" ELSE "failed"

OverallStatus(verified_count, total_count) ==
    IF verified_count = total_count THEN "verified" ELSE "failed"

\* The early return of verify_documents for incomplete input.
MutPendingAsFailed(total, error) ==
    [raised |-> FALSE, status |-> "failed", verified_count |-> 0,
     total_count |-> total, comparisons |-> <<>>, mismatches |-> <<>>,
     error |-> error]

PendingResult(total, error) ==
    [raised |-> FALSE, status |-> "pending", verified_count |-> 0,
     total_count |-> total, comparisons |-> <<>>, mismatches |-> <<>>,
     error |-> error]

\* verified_count after the loop.
VerifiedCount(comparisons) ==
    Cardinality({i \in DOMAIN comparisons : comparisons[i].overall_match})

\* The result dict built after the loop over the documents.
VerificationResult(comparisons) ==
    [raised         |-> FALSE,
     status         |-> OverallStatus(VerifiedCount(comparisons), Len(comparisons)),
     verified_count |-> VerifiedCount(comparisons),
     total_count    |-> Len(comparisons),
     comparisons    |-> comparisons,
     mismatches     |-> FlattenMismatches(comparisons)]

\* exact_match_dob raises (ValueError out of normalize_date) for this document.
DobRaises(personal_dob, edu_doc) ==
    exact_match_dob(personal_dob, edu_doc.extracted_dob).raised

\* verify_documents(personal_name, personal_dob, educational_documents).
\* A ValueError raised inside the loop leaves the function: [raised |-> TRUE].
verify_documents(personal_name, personal_dob, educational_documents) ==
    IF personal_name = <<>> \/ personal_dob = <<>>
    THEN PendingResult(Len(educational_documents), "Personal document data incomplete")
    ELSE IF educational_documents = <<>>
    THEN PendingResult(0, "No educational documents found")
    ELSE IF \E i \in DOMAIN educational_documents :
               DobRaises(personal_dob, educational_documents[i])
    THEN [raised |-> TRUE]
    ELSE VerificationResult(
             [i \in DOMAIN educational_documents |->
                Comparison(personal_name, personal_dob, educational_documents[i])])

\* ------------------------------------------------------------------------
\* services/ocr_cleaner.py
\* ------------------------------------------------------------------------
\* The ASCII characters of quote_chars; the Unicode quotation marks of the
\* source do not occur in the values of this model.
QuoteChars == {"'", "\"", "\t", " "}

RECURSIVE LStripChars(_, _)
LStripChars(s, chars) ==
    IF s # <<>> /\ Head(s) \in chars THEN LStripChars(Tail(s), chars) ELSE s

RECURSIVE RStripChars(_, _)
RStripChars(s, chars) ==
    IF s # <<>> /\ s[Len(s)] \in chars
    THEN RStripChars(SubSeq(s, 1, Len(s) - 1), chars) ELSE s

\* _normalize_name(name): s.strip().strip(quote_chars).strip()
ocr_normalize_name(name) ==
    IF name = <<>> THEN name
    ELSE Strip(RStripChars(LStripChars(Strip(name), QuoteChars), QuoteChars))

\* ------------------------------------------------------------------------
\* Values the OCR + LLM extraction (an external collaborator) can return
\* ------------------------------------------------------------------------
NameRameshK      == <<"R","A","M","E","S","H"," ","K">>
NameRameshKRaw   == <<"r","a","m","e","s","h"," "," ","k",".">>
NameRameshKQuote == <<"'","R","A","M","E","S","H"," ","K">>
NameRameshJ      == <<"R","A","M","E","S","H"," ","J">>
NameSureshK      == <<"S","U","R","E","S","H"," ","K">>

Dob1987      == <<"0","1","-","1","2","-","1","9","8","7">>
Dob1987Short == <<"1","/","1","2","/","8","7">>
Dob1987Off   == <<"0","2","-","1","2","-","1","9","8","7">>
DobBadYear   == <<"0","1","-","1","2","-","8","x">>

\* personal_data dicts of extract_personal_data_llm / clean_ocr_extraction:
\* a quoted name, another person, and a document without a readable DOB.
PersonalOutputs ==
    {[name |-> NameRameshKQuote, dob |-> Dob1987, address |-> TRUE],
     [name |-> NameSureshK,      dob |-> Dob1987, address |-> TRUE],
     [name |-> NameRameshK,      dob |-> <<>>,    address |-> TRUE]}

\* education_data dicts of extract_educational_data_llm: the same identity, the
\* same identity written differently, another name, no identity, a DOB whose
\* year int() rejects, and a document without a qualification.
EduOutputs ==
    {[qualification |-> "Class 10", name |-> NameRameshK,    dob |-> Dob1987],
     [qualification |-> "Class 10", name |-> NameRameshKRaw, dob |-> Dob1987Short],
     [qualification |-> "Class 10", name |-> NameSureshK,    dob |-> Dob1987],
     [qualification |-> "Class 10", name |-> <<>>,           dob |-> <<>>],
     [qualification |-> "Class 10", name |-> NameRameshK,    dob |-> DobBadYear],
     [qualification |-> "NULL",     name |-> NameRameshK,    dob |-> Dob1987]}

\* ------------------------------------------------------------------------
\* Bounds of the model
\* ------------------------------------------------------------------------
\* Longest document list handed to verify_documents by the function harness.
MaxVerifyDocs == 2
\* Most educational_documents rows of the worker.
MaxDocs == 2
\* Most educational files of the worker on disk.
MaxEduFiles == 1

\* ------------------------------------------------------------------------
\* State
\* ------------------------------------------------------------------------
VARIABLES
    worker,           \* the worker's row of table workers
    docs,             \* the worker's rows of educational_documents, by id
    pending,          \* the worker's row of pending_ocr_results
    files,            \* the worker's uploaded files on disk
    work_experience,  \* the worker's rows of work_experience
    sqlite_sequence,  \* AUTOINCREMENT counter of work_experience
    cv_status,        \* the worker's row of cv_status
    cv_files,         \* the worker's files in CVS_DIR
    embedding,        \* the worker's document is in the vector database
    voice_session,    \* the row of voice_sessions of one call_id
    experience_session, \* the row of experience_sessions of one session_id
    ocr_instance,     \* the module global _ocr_instance of ocr_service
    threads,          \* worker threads of the process: where each one is
    todo,             \* what the running request has still to do
    loc,              \* local variables of the running request
    crashed,          \* the process died in the middle of the last request
    fn, args, ret     \* function harness: function applied, inputs, result

cvvars == <<cv_status, cv_files, embedding>>
sessvars == <<voice_session, experience_session>>
procvars == <<ocr_instance, threads>>
dbvars == <<worker, docs, pending, files, work_experience, sqlite_sequence,
            cv_status, cv_files, embedding, voice_session, experience_session>>
reqvars == <<todo, loc, crashed>>
harness == <<fn, args, ret>>
vars == <<worker, docs, pending, files, work_experience, sqlite_sequence,
          cv_status, cv_files, embedding, voice_session, experience_session,
          ocr_instance, threads, todo, loc, crashed, fn, args, ret>>

\* The row INSERTed by create_worker, with the column defaults of init_db.
InitWorker ==
    [name                       |-> <<>>,
     dob                        |-> <<>>,
     address                    |-> FALSE,
     personal_extracted_name    |-> <<>>,
     personal_extracted_dob     |-> <<>>,
     verification_status        |-> "pending",
     verification_errors        |-> <<>>,
     educational_document_paths |-> 0]

NoPersonal == [name |-> <<>>, dob |-> <<>>, address |-> FALSE]

NoEducation == [qualification |-> "NULL", name |-> <<>>, dob |-> <<>>]

NoPending ==
    [exists |-> FALSE, personal_data |-> NoPersonal, education_data |-> FALSE,
     educational_document_path |-> FALSE]

NoResult == [raised |-> FALSE, status |-> "none"]

LocInit ==
    [personal_data |-> NoPersonal, education_data |-> NoEducation,
     verification_result |-> NoResult]

\* No row of cv_status is made when the worker is created.
NoCvStatus == [exists |-> FALSE, has_cv |-> FALSE]

\* CVS_DIR holds, per CV_<worker_id>_<timestamp>, the .html, the .txt and
\* what is at the .pdf path; and the <name>_Resume copies.
NoCvFiles == [rendered |-> <<>>, resume |-> FALSE]

\* No row of voice_sessions for the call_id.  A nullable column holds <<>>
\* for NULL and <<value>> otherwise.
NoVoiceSession ==
    [exists |-> FALSE, worker_id |-> FALSE, current_step |-> 0,
     status |-> "initiated", exp_ready |-> FALSE, responses_json |-> <<>>,
     transcript |-> <<>>, experience_json |-> <<>>]

\* crud.create_voice_session: INSERT (call_id, worker_id, phone_number,
\* exp_ready 0), the other columns at their defaults.
create_voice_session(worker_id) ==
    [NoVoiceSession EXCEPT !.exists = TRUE, !.worker_id = worker_id]

\* crud.link_call_to_worker: UPDATE voice_sessions SET worker_id = ?
crud_link_call_to_worker(session) ==
    IF session.exists THEN [session EXCEPT !.worker_id = TRUE] ELSE session

\* crud.update_voice_session: current_step and status always, the other
\* columns when the argument is not None (<<>>).
update_voice_session(session, step, status, responses_json, transcript, experience_json, exp_ready) ==
    IF ~session.exists THEN session
    ELSE [session EXCEPT
            !.current_step = step,
            !.status = status,
            !.responses_json = IF responses_json # <<>> THEN responses_json ELSE @,
            !.transcript = IF transcript # <<>> THEN transcript ELSE @,
            !.experience_json =
                IF experience_json # <<>> THEN experience_json ELSE @,
            !.exp_ready = IF exp_ready # <<>> THEN exp_ready[1] ELSE @]

NoExperienceSession ==
    [exists |-> FALSE, current_question |-> 0, status |-> "active",
     raw_conversation |-> {}, structured_data |-> FALSE]

\* _ocr_instance = None at import; constructed counts the PaddleOCR objects
\* made in this process, and handle n is the n-th of them (0 is None).
NoOcrInstance == [handle |-> 0, constructed |-> 0, available |-> TRUE]

InitRows ==
    /\ worker = InitWorker
    /\ docs = <<>>
    /\ pending = NoPending
    /\ files = [personal |-> FALSE, educational |-> 0]
    /\ work_experience = <<>>
    /\ sqlite_sequence = 0
    /\ cv_status = NoCvStatus
    /\ cv_files = NoCvFiles
    /\ embedding = FALSE
    /\ voice_session = NoVoiceSession
    /\ experience_session = NoExperienceSession
    /\ todo = <<>>
    /\ loc = LocInit
    /\ crashed = FALSE

\* The process right after import: no OCR engine, no worker thread yet.
InitProcess == ocr_instance = NoOcrInstance /\ threads = <<>>

InitDb == InitRows /\ InitProcess

InitHarness == fn = "none" /\ args = <<>> /\ ret = <<>>

\* ------------------------------------------------------------------------
\* Function harness: verify_documents on bounded inputs
\* ------------------------------------------------------------------------
VerifyNames == {<<>>, NameRameshK, NameRameshKRaw, NameRameshJ, NameSureshK}
VerifyDobs  == {<<>>, Dob1987, Dob1987Short, Dob1987Off, DobBadYear}
VerifyPersonalNames == {<<>>, NameRameshK}
VerifyPersonalDobs  == {<<>>, Dob1987}

VerifyDocLists ==
    UNION {
      {[i \in 1..n |-> [id |-> i, qualification |-> "Class 10",
                        extracted_name |-> f[i][1], extracted_dob |-> f[i][2]]] :
         f \in [1..n -> VerifyNames \X VerifyDobs]} :
      n \in 0..MaxVerifyDocs}

InitVerify ==
    /\ InitDb
    /\ fn = "none"
    /\ ret = <<>>
    /\ args \in [personal_name : VerifyPersonalNames,
                 personal_dob : VerifyPersonalDobs,
                 educational_documents : VerifyDocLists]

CallVerifyDocuments ==
    /\ fn = "none"
    /\ fn' = "verify_documents"
    /\ ret' = verify_documents(args.personal_name, args.personal_dob,
                               args.educational_documents)
    /\ UNCHANGED <<args, dbvars, reqvars, procvars>>

NextVerify == CallVerifyDocuments

SpecVerify == InitVerify /\ [][NextVerify]_vars

\* ------------------------------------------------------------------------
\* Function harness: fuzzy_match_names on pairs of names
\* ------------------------------------------------------------------------
Name20A == <<"A","B","C","D","E","F","G","H","I","J",
             "K","L","M","N","O","P","Q","R","S","T">>
Name20B == <<"A","B","C","D","E","F","G","H","I","J",
             "K","L","M","N","O","P","Q","X","Y","Z">>
Name20C == <<"A","B","C","D","E","F","G","H","I","J",
             "K","L","M","N","O","P","W","X","Y","Z">>
NameDigits  == <<"1","2","3">>
NameDigits2 == <<"4","5">>

FuzzyNames ==
    {<<>>, Name20A, Name20B, Name20C, NameRameshK, NameRameshKRaw,
     NameRameshJ, NameSureshK, NameDigits, NameDigits2}

InitNames ==
    /\ InitDb
    /\ fn = "none"
    /\ ret = <<>>
    /\ args \in FuzzyNames \X FuzzyNames

CallFuzzyMatchNames ==
    /\ fn = "none"
    /\ fn' = "fuzzy_match_names"
    /\ ret' = fuzzy_match_names(args[1], args[2])
    /\ UNCHANGED <<args, dbvars, reqvars, procvars>>

NextNames == CallFuzzyMatchNames

SpecNames == InitNames /\ [][NextNames]_vars

\* ------------------------------------------------------------------------
\* Function harness: exact_match_dob on pairs of dates
\* ------------------------------------------------------------------------
DobIso         == <<"1","9","8","7","-","1","2","-","0","1">>
DobDotted      == <<"0","1",".","1","2",".","1","9","8","7">>
DobHyphenShort == <<"1","-","1","2","-","8","7">>
DobTwoParts    == <<"1","2","/","1","9","8","7">>
DobGarbage     == <<"g","a","r","b","a","g","e">>
DobFourParts   == <<"1","-","2","-","3","-","4">>
DobPadded      == <<" ","1","9","8","7"," ">>

DobInputs ==
    {<<>>, Dob1987, Dob1987Short, Dob1987Off, DobBadYear, DobIso, DobDotted,
     DobHyphenShort, DobTwoParts, DobGarbage}

InitDob ==
    /\ InitDb
    /\ fn = "none"
    /\ ret = <<>>
    /\ args \in DobInputs \X DobInputs

CallExactMatchDob ==
    /\ fn = "none"
    /\ fn' = "exact_match_dob"
    /\ ret' = exact_match_dob(args[1], args[2])
    /\ UNCHANGED <<args, dbvars, reqvars, procvars>>

NextDob == CallExactMatchDob

SpecDob == InitDob /\ [][NextDob]_vars

\* ------------------------------------------------------------------------
\* Function harness: normalize_date, applied once and again to its result
\* ------------------------------------------------------------------------
Separators == {"-", "/", ".", " "}

DayTokens   == {<<"1">>, <<"0","1">>, <<"3","1">>}
MonthTokens == {<<"2">>, <<"1","2">>}
YearTokens  == {<<"8","7">>, <<"0","4">>, <<"1","9","8","7">>, <<"2","0","0","4">>}
FullYears   == {<<"1","9","8","7">>, <<"2","0","0","4">>}

DateText(first, second, third, sep) ==
    first \o <<sep>> \o second \o <<sep>> \o third

\* Dates written day first, the year with two or four digits.
DayFirstDates ==
    {DateText(day, month, year, sep) :
        day \in DayTokens, month \in MonthTokens, year \in YearTokens,
        sep \in Separators}

\* Dates written year first.
YearFirstDates ==
    {DateText(year, month, day, sep) :
        year \in FullYears, month \in MonthTokens, day \in DayTokens,
        sep \in Separators}

\* Texts that are not three fields, and one whose year int() rejects.
OtherDateTexts ==
    {DobTwoParts, DobGarbage, DobFourParts, DobPadded, DobBadYear}

InitNormalizeDate ==
    /\ InitDb
    /\ fn = "none"
    /\ ret = <<>>
    /\ args \in DayFirstDates \cup YearFirstDates \cup OtherDateTexts

\* normalize_date(x) and normalize_date(normalize_date(x)).
OnceAndAgain(once) ==
    [once  |-> once,
     twice |-> IF once.raised THEN once ELSE normalize_date(once.value)]

CallNormalizeDate ==
    /\ fn = "none"
    /\ fn' = "normalize_date"
    /\ ret' = OnceAndAgain(normalize_date(args))
    /\ UNCHANGED <<args, dbvars, reqvars, procvars>>

NextNormalizeDate == CallNormalizeDate

SpecNormalizeDate == InitNormalizeDate /\ [][NextNormalizeDate]_vars

\* ------------------------------------------------------------------------
\* db/crud.py: the rows read and written by the verification flow
\* ------------------------------------------------------------------------
\* `row[2] or 'pending'`
OrPending(status) == IF status = "NULL" THEN "pending" ELSE status

\* Rows with actual data: qualification IS NOT NULL.
HasQualification(d) == d.qualification # "NULL"

get_worker_extraction_status(w, ds) ==
    [personal_extracted    |-> w.personal_extracted_name # <<>> /\
                               w.personal_extracted_dob # <<>>,
     personal_name         |-> w.personal_extracted_name,
     personal_dob          |-> w.personal_extracted_dob,
     educational_extracted |-> Cardinality({i \in DOMAIN ds : HasQualification(ds[i])}),
     verification_status   |-> OrPending(w.verification_status)]

\* The rows of the worker from id i on, ORDER BY id; the id of a row is its
\* position in docs.
RECURSIVE DocumentsFrom(_, _)
DocumentsFrom(ds, i) ==
    IF i > Len(ds) THEN <<>>
    ELSE (IF HasQualification(ds[i])
          THEN <<[id             |-> i,
                  qualification  |-> ds[i].qualification,
                  extracted_name |-> ds[i].extracted_name,
                  extracted_dob  |-> ds[i].extracted_dob]>>
          ELSE <<>>) \o DocumentsFrom(ds, i + 1)

get_educational_documents_for_verification(ds) == DocumentsFrom(ds, 1)

\* get_educational_documents: the number of rows with a qualification.
get_educational_documents(ds) ==
    Cardinality({i \in DOMAIN ds : HasQualification(ds[i])})

\* update_worker_data, the UPDATE workers and its commit.
UpdateWorkers(w, name, dob, address) ==
    [w EXCEPT !.name = name, !.dob = dob, !.address = address,
              !.personal_extracted_name = name, !.personal_extracted_dob = dob,
              !.verification_status = "pending", !.verification_errors = <<>>]

\* "RESET EDUCATIONAL DOCUMENT VERIFICATION": verification_status = NULL on
\* every row of the worker.
ResetDocuments(ds) ==
    [i \in DOMAIN ds |-> [ds[i] EXCEPT !.verification_status = "NULL"]]

\* update_worker_verification, the UPDATE workers and its commit: errors and
\* the extracted fields are written only when given.
update_worker_verification(w, status, errors, extracted, extracted_name, extracted_dob) ==
    [w EXCEPT !.verification_status = status,
              !.verification_errors = IF errors # <<>> THEN errors ELSE @,
              !.personal_extracted_name = IF extracted THEN extracted_name ELSE @,
              !.personal_extracted_dob = IF extracted THEN extracted_dob ELSE @]

\* update_educational_document_verification: UPDATE ... WHERE id = ?
update_educational_document_verification(ds, doc_id, status) ==
    [i \in DOMAIN ds |->
       IF i = doc_id THEN [ds[i] EXCEPT !.verification_status = status] ELSE ds[i]]

\* The row written by save_educational_document_with_llm_data.
DocumentRow(education_data) ==
    [qualification       |-> education_data.qualification,
     extracted_name      |-> Strip(education_data.name),
     extracted_dob       |-> Strip(education_data.dob),
     verification_status |-> "pending"]

\* save_educational_document_with_llm_data up to its first commit: UPDATE
\* every row WHERE worker_id = ? when a row exists, INSERT otherwise.
UpsertDocument(ds, education_data) ==
    IF ds # <<>> THEN [i \in DOMAIN ds |-> DocumentRow(education_data)]
    ELSE <<DocumentRow(education_data)>>

\* "VERIFICATION LOGIC" of save_educational_document_with_llm_data: the status
\* it writes to the worker and to every row of the worker, "none" when it
\* writes nothing.
InlineVerdict(w, extracted_name, extracted_dob) ==
    IF \/ w.personal_extracted_name = <<>> \/ w.personal_extracted_dob = <<>>
       \/ extracted_name = <<>> \/ extracted_dob = <<>>
    THEN "none"
    ELSE IF /\ Strip(StrLower(w.personal_extracted_name)) = Strip(StrLower(extracted_name))
            /\ Strip(w.personal_extracted_dob) = Strip(extracted_dob)
    THEN "VERIFIED"
    ELSE "MISMATCH"

SetAllDocuments(ds, status) ==
    [i \in DOMAIN ds |-> [ds[i] EXCEPT !.verification_status = status]]

\* The row INSERTed by save_educational_document: no identity, the column
\* default 'pending'.
PlainDocumentRow ==
    [qualification       |-> "Class 10",
     extracted_name      |-> <<>>,
     extracted_dob       |-> <<>>,
     verification_status |-> "pending"]

\* ------------------------------------------------------------------------
\* api/form.py: how a verification result is persisted
\* ------------------------------------------------------------------------
WorkerWrite(status, errors) ==
    [table |-> "workers", status |-> status, errors |-> errors, id |-> 0]

DocumentWrite(doc_id, status) ==
    [table |-> "educational_documents", status |-> status, errors |-> <<>>,
     id |-> doc_id]

\* One crud call: one connection, one commit.
Commit(writes) == [op |-> "commit", writes |-> writes]

\* for comp in comparisons: if comp["overall_match"]: ...(document_id, "verified")
RECURSIVE VerifiedWrites(_)
VerifiedWrites(comparisons) ==
    IF comparisons = <<>> THEN <<>>
    ELSE (IF Head(comparisons).overall_match
          THEN <<DocumentWrite(Head(comparisons).document_id, "verified")>>
          ELSE <<>>) \o VerifiedWrites(Tail(comparisons))

\* for mismatch in mismatches: ...(mismatch["document_id"], "failed", ...)
FailedWrites(mismatches) ==
    [k \in DOMAIN mismatches |-> DocumentWrite(mismatches[k].document_id, "failed")]

\* The writes of "Update DB verification state", in order.
ResultWrites(result) ==
    IF result.status = "verified"
    THEN <<WorkerWrite("verified", <<>>)>> \o VerifiedWrites(result.comparisons)
    ELSE <<WorkerWrite("failed", result.mismatches)>> \o FailedWrites(result.mismatches)

\* All the writes of a result in one transaction.
MutPersistInOneCommit(result) == <<Commit(ResultWrites(result))>>

\* The commits that persist a verification result: update_worker_verification,
\* then one update_educational_document_verification per document written.
PersistPlan(result) ==
    [k \in DOMAIN ResultWrites(result) |-> Commit(<<ResultWrites(result)[k]>>)]

ApplyWriteToWorker(w, write) ==
    IF write.table = "workers"
    THEN update_worker_verification(w, write.status, write.errors, FALSE, <<>>, <<>>)
    ELSE w

ApplyWriteToDocuments(ds, write) ==
    IF write.table = "educational_documents"
    THEN update_educational_document_verification(ds, write.id, write.status)
    ELSE ds

RECURSIVE WorkerAfter(_, _)
WorkerAfter(w, writes) ==
    IF writes = <<>> THEN w
    ELSE WorkerAfter(ApplyWriteToWorker(w, Head(writes)), Tail(writes))

RECURSIVE DocumentsAfter(_, _)
DocumentsAfter(ds, writes) ==
    IF writes = <<>> THEN ds
    ELSE DocumentsAfter(ApplyWriteToDocuments(ds, Head(writes)), Tail(writes))

\* ------------------------------------------------------------------------
\* Requests.  The requests of one worker are served one at a time; a request
\* is a list of steps (todo), each step at most one commit, and the process
\* can die between two steps.
\* ------------------------------------------------------------------------
Idle == todo = <<>>

Step(op) == [op |-> op, writes |-> <<>>]

\* The locals of a request are gone when it has nothing left to do; the last
\* verification result stays on record.
Forget(l) ==
    [l EXCEPT !.personal_data = NoPersonal, !.education_data = NoEducation]

Locals(l, rest) == IF rest = <<>> THEN Forget(l) ELSE l

\* A request starts: personal_data is the personal data it is going to save.
Begin(personal_data, steps) ==
    /\ Idle
    /\ todo' = steps
    /\ loc' = Locals([personal_data |-> personal_data,
                      education_data |-> NoEducation,
                      verification_result |-> NoResult], steps)
    /\ crashed' = FALSE

Running(op) == todo # <<>> /\ Head(todo).op = op

\* A step ends with the locals l.
Done(l) ==
    /\ todo' = Tail(todo)
    /\ crashed' = crashed
    /\ loc' = Locals(l, Tail(todo))

\* name = _normalize_name(personal_data.get("name") or ""), dob, address
SavedPersonal(personal_data) ==
    [name    |-> ocr_normalize_name(personal_data.name),
     dob     |-> personal_data.dob,
     address |-> personal_data.address]

\* crud.update_worker_data(worker_id, name, dob, address): two commits.
StepsUpdateWorkerData == <<Step("update_workers"), Step("reset_documents")>>

\* crud.update_worker_verification(worker_id, status="pending",
\* extracted_name=name, extracted_dob=dob): two commits.
StepsSetExtracted ==
    <<Step("update_worker_verification"), Step("reset_documents")>>

\* OCR and LLM of one educational file, then
\* crud.save_educational_document_with_llm_data: the save and the comparison.
StepsSaveDocument == <<Step("upsert_document"), Step("compare_document")>>

RECURSIVE StepsSaveDocuments(_)
StepsSaveDocuments(n) ==
    IF n = 0 THEN <<>> ELSE StepsSaveDocument \o StepsSaveDocuments(n - 1)

StepVerify == <<Step("verify")>>

\* process_ocr_background: STEP 1, STEP 2 over n educational files, STEP 3.
StepsProcessOcrBackground(n) ==
    StepsUpdateWorkerData \o StepsSetExtracted \o StepsSaveDocuments(n)
        \o StepVerify

\* get_worker_data: the documents found for the worker.  Uploaded files are
\* never removed, so the personal file is found by its stored path or by glob.
has_uploaded_docs == files.personal

has_personal_data == worker.name # <<>> \/ worker.dob # <<>> \/ worker.address

EducationalDocsFound ==
    IF worker.educational_document_paths > 0 THEN worker.educational_document_paths
    ELSE IF worker.name # <<>> /\ worker.dob # <<>> THEN files.educational
    ELSE 0

has_unprocessed_education ==
    IF worker.educational_document_paths > 0
    THEN EducationalDocsFound > get_educational_documents(docs)
    ELSE EducationalDocsFound > 0 /\ has_personal_data

should_process_ocr ==
    (has_uploaded_docs /\ ~has_personal_data) \/ has_unprocessed_education

should_run_verification ==
    /\ get_worker_extraction_status(worker, docs).personal_extracted
    /\ get_worker_extraction_status(worker, docs).educational_extracted > 0
    /\ get_worker_extraction_status(worker, docs).verification_status = "pending"

\* POST /personal-document/upload
upload_personal_document ==
    /\ ~files.personal
    /\ Begin(NoPersonal, <<>>)
    /\ files' = [files EXCEPT !.personal = TRUE]
    /\ UNCHANGED <<worker, docs, pending, work_experience, sqlite_sequence, cvvars, sessvars, procvars, harness>>

\* POST /educational-document/upload: a new file, or a file already on disk
\* whose path the worker row has lost.
upload_educational_document ==
    /\ Begin(NoPersonal, <<>>)
    /\ \/ /\ files.educational < MaxEduFiles
          /\ files' = [files EXCEPT !.educational = @ + 1]
       \/ /\ worker.educational_document_paths < files.educational
          /\ files' = files
    /\ worker' = [worker EXCEPT !.educational_document_paths = @ + 1]
    /\ UNCHANGED <<docs, pending, work_experience, sqlite_sequence, cvvars, sessvars, procvars, harness>>

\* POST /{worker_id}/process-ocr
process_ocr_for_review ==
    /\ files.personal
    /\ Begin(NoPersonal, <<>>)
    /\ \E personal_data \in PersonalOutputs, education_data \in BOOLEAN :
          /\ education_data => files.educational > 0
          /\ pending' = [exists                    |-> TRUE,
                         personal_data             |-> personal_data,
                         education_data            |-> education_data,
                         educational_document_path |-> files.educational > 0]
    /\ UNCHANGED <<worker, docs, files, work_experience, sqlite_sequence, cvvars, sessvars, procvars, harness>>

\* POST /{worker_id}/submit-review
submit_reviewed_data ==
    /\ pending.exists
    /\ (pending.education_data /\ pending.educational_document_path)
          => Len(docs) < MaxDocs
    /\ Begin(pending.personal_data,
             (IF pending.personal_data # NoPersonal
              THEN StepsUpdateWorkerData ELSE <<>>)
             \o (IF pending.education_data /\ pending.educational_document_path
                 THEN <<Step("insert_document")>> ELSE <<>>)
             \o <<Step("delete_pending")>>)
    /\ UNCHANGED <<dbvars, procvars, harness>>

\* GET /{worker_id}/data
get_worker_data ==
    \/ /\ should_process_ocr
       /\ files.personal
       /\ \E personal_data \in PersonalOutputs :
             Begin(personal_data,
                   StepsProcessOcrBackground(EducationalDocsFound)
                   \o (IF EducationalDocsFound > 0 THEN StepVerify ELSE <<>>))
       /\ UNCHANGED <<dbvars, procvars, harness>>
    \/ /\ ~should_process_ocr
       /\ should_run_verification
       /\ Begin(NoPersonal, StepVerify)
       /\ UNCHANGED <<dbvars, procvars, harness>>

\* POST /{worker_id}/final-submit: trigger_ocr_and_voice in the background
\* when the worker has no personal data yet.
final_submit ==
    /\ files.personal
    /\ ~has_personal_data
    /\ \E personal_data \in PersonalOutputs :
          Begin(personal_data,
                StepsUpdateWorkerData
                \o (IF worker.educational_document_paths > 0 \/ files.educational > 0
                    THEN StepsSaveDocument ELSE <<>>))
    /\ UNCHANGED <<dbvars, procvars, harness>>

\* DELETE FROM voice_sessions WHERE worker_id = ?: a session that was never
\* linked to the worker stays.
DeleteVoiceSessions(session) ==
    IF session.exists /\ session.worker_id THEN NoVoiceSession ELSE session

\* crud.delete_personal_data
delete_personal_data ==
    /\ Begin(NoPersonal, <<>>)
    /\ worker' = [worker EXCEPT !.name = <<>>, !.dob = <<>>, !.address = FALSE,
                                !.personal_extracted_name = <<>>,
                                !.personal_extracted_dob = <<>>,
                                !.verification_status = "NULL"]
    /\ work_experience' = <<>>
    /\ pending' = [pending EXCEPT !.personal_data = NoPersonal]
    /\ voice_session' = DeleteVoiceSessions(voice_session)
    /\ experience_session' = NoExperienceSession
    /\ UNCHANGED <<docs, files, sqlite_sequence, cvvars, procvars, harness>>

\* crud.delete_educational_data
delete_educational_data ==
    /\ Begin(NoPersonal, <<>>)
    /\ worker' = [worker EXCEPT !.educational_document_paths = 0,
                                !.verification_status = "pending"]
    /\ docs' = <<>>
    /\ pending' = [pending EXCEPT !.educational_document_path = FALSE,
                                  !.education_data = FALSE]
    /\ UNCHANGED <<files, work_experience, sqlite_sequence, cvvars, sessvars, procvars, harness>>

\* crud.delete_all_data
delete_all_data ==
    /\ Begin(NoPersonal, <<>>)
    /\ worker' = [worker EXCEPT !.name = <<>>, !.dob = <<>>, !.address = FALSE,
                                !.personal_extracted_name = <<>>,
                                !.personal_extracted_dob = <<>>,
                                !.educational_document_paths = 0]
    /\ docs' = <<>>
    /\ work_experience' = <<>>
    /\ pending' = NoPending
    /\ cv_status' = [cv_status EXCEPT !.has_cv = FALSE]
    /\ voice_session' = DeleteVoiceSessions(voice_session)
    /\ experience_session' = NoExperienceSession
    /\ UNCHANGED <<files, sqlite_sequence, cv_files, embedding, procvars, harness>>

\* DELETE /{worker_id}/data/{data_type}
delete_document_data ==
    \/ delete_personal_data
    \/ delete_educational_data
    \/ delete_all_data

\* ------------------------------------------------------------------------
\* The steps of a running request
\* ------------------------------------------------------------------------
update_workers ==
    /\ Running("update_workers")
    /\ worker' = UpdateWorkers(worker, SavedPersonal(loc.personal_data).name,
                               SavedPersonal(loc.personal_data).dob,
                               SavedPersonal(loc.personal_data).address)
    /\ Done(loc)
    /\ UNCHANGED <<docs, pending, files, work_experience, sqlite_sequence, cvvars, sessvars, procvars, harness>>

reset_documents ==
    /\ Running("reset_documents")
    /\ docs' = ResetDocuments(docs)
    /\ Done(loc)
    /\ UNCHANGED <<worker, pending, files, work_experience, sqlite_sequence, cvvars, sessvars, procvars, harness>>

set_extracted ==
    /\ Running("update_worker_verification")
    /\ worker' = update_worker_verification(worker, "pending", <<>>, TRUE,
                                            SavedPersonal(loc.personal_data).name,
                                            SavedPersonal(loc.personal_data).dob)
    /\ Done(loc)
    /\ UNCHANGED <<docs, pending, files, work_experience, sqlite_sequence, cvvars, sessvars, procvars, harness>>

\* extract_educational_data_llm returns education_data, which is saved.
upsert_document ==
    /\ Running("upsert_document")
    /\ \E education_data \in EduOutputs :
          /\ docs' = UpsertDocument(docs, education_data)
          /\ Done([loc EXCEPT !.education_data = education_data])
    /\ UNCHANGED <<worker, pending, files, work_experience, sqlite_sequence, cvvars, sessvars, procvars, harness>>

compare_document ==
    /\ Running("compare_document")
    /\ \E verdict \in {InlineVerdict(worker, Strip(loc.education_data.name),
                                     Strip(loc.education_data.dob))} :
          IF verdict = "none"
          THEN UNCHANGED <<worker, docs>>
          ELSE /\ docs' = SetAllDocuments(docs, verdict)
               /\ worker' = [worker EXCEPT !.verification_status = verdict]
    /\ Done([loc EXCEPT !.education_data = NoEducation])
    /\ UNCHANGED <<pending, files, work_experience, sqlite_sequence, cvvars, sessvars, procvars, harness>>

\* get_worker_extraction_status, get_educational_documents_for_verification,
\* verify_documents: no write.  An exception out of verify_documents is caught
\* by the caller, which then persists nothing.
verify ==
    /\ Running("verify")
    /\ IF /\ get_worker_extraction_status(worker, docs).personal_extracted
          /\ get_worker_extraction_status(worker, docs).educational_extracted > 0
       THEN \E result \in {verify_documents(
                               worker.personal_extracted_name,
                               worker.personal_extracted_dob,
                               get_educational_documents_for_verification(docs))} :
               /\ todo' = (IF result.raised THEN <<>> ELSE PersistPlan(result))
                          \o Tail(todo)
               /\ loc' = Locals([loc EXCEPT !.verification_result = result], todo')
       ELSE /\ todo' = Tail(todo)
            /\ loc' = Locals(loc, Tail(todo))
    /\ UNCHANGED <<dbvars, procvars, crashed, harness>>

commit ==
    /\ Running("commit")
    /\ worker' = WorkerAfter(worker, Head(todo).writes)
    /\ docs' = DocumentsAfter(docs, Head(todo).writes)
    /\ Done(loc)
    /\ UNCHANGED <<pending, files, work_experience, sqlite_sequence, cvvars, sessvars, procvars, harness>>

insert_document ==
    /\ Running("insert_document")
    /\ docs' = Append(docs, PlainDocumentRow)
    /\ Done(loc)
    /\ UNCHANGED <<worker, pending, files, work_experience, sqlite_sequence, cvvars, sessvars, procvars, harness>>

delete_pending ==
    /\ Running("delete_pending")
    /\ pending' = NoPending
    /\ Done(loc)
    /\ UNCHANGED <<worker, docs, files, work_experience, sqlite_sequence, cvvars, sessvars, procvars, harness>>

\* The process dies; the commits already made stay.
Crash ==
    /\ todo # <<>>
    /\ todo' = <<>>
    /\ crashed' = TRUE
    /\ loc' = Forget(loc)
    /\ UNCHANGED <<dbvars, procvars, harness>>

Init == InitDb /\ InitHarness

Next ==
    \/ upload_personal_document
    \/ upload_educational_document
    \/ process_ocr_for_review
    \/ submit_reviewed_data
    \/ get_worker_data
    \/ final_submit
    \/ delete_document_data
    \/ update_workers
    \/ reset_documents
    \/ set_extracted
    \/ upsert_document
    \/ compare_document
    \/ verify
    \/ commit
    \/ insert_document
    \/ delete_pending
    \/ Crash

Spec == Init /\ [][Next]_vars

\* ------------------------------------------------------------------------
\* db/crud.py: calculate_total_experience_duration
\* ------------------------------------------------------------------------
\* Most entries of a workplaces list handed to the function harness.
MaxWorkplaces == 2
\* Most work_experience rows ever inserted (the AUTOINCREMENT counter).
MaxSequence == 3

RECURSIVE SkipDigits(_, _)
SkipDigits(s, i) ==
    IF i <= Len(s) /\ IsDigit(s[i]) THEN SkipDigits(s, i + 1) ELSE i

RECURSIVE SkipSpaces(_, _)
SkipSpaces(s, i) ==
    IF i <= Len(s) /\ IsSpace(s[i]) THEN SkipSpaces(s, i + 1) ELSE i

\* \.?\d* from position e on
AfterDot(s, e) ==
    IF e <= Len(s) /\ s[e] = "." THEN SkipDigits(s, e + 1) ELSE e

\* First position after the text that (\d+\.?\d*) takes from the digit at i.
NumberEnd(s, i) == AfterDot(s, SkipDigits(s, i))

UnitFollows(s, j, unit) == j <= Len(s) /\ s[j] = unit

\* Positions where r'(\d+\.?\d*)\s*(?:<unit>...)' matches; each alternative
\* of the unit group starts with the letter unit and one of them is that
\* letter alone.
MatchStarts(s, unit) ==
    {i \in DOMAIN s :
        IsDigit(s[i]) /\ UnitFollows(s, SkipSpaces(s, NumberEnd(s, i)), unit)}

\* group(1) of re.search: the leftmost match.
Group1(s, starts) ==
    SubSeq(s, Smallest(starts), NumberEnd(s, Smallest(starts)) - 1)

RECURSIVE DigitsValue(_)
DigitsValue(s) ==
    IF s = <<>> THEN 0
    ELSE 10 * DigitsValue(SubSeq(s, 1, Len(s) - 1)) + DigitValue(s[Len(s)])

RECURSIVE Pow10(_)
Pow10(n) == IF n = 0 THEN 1 ELSE 10 * Pow10(n - 1)

DotPos(token) ==
    IF \E i \in DOMAIN token : token[i] = "."
    THEN CHOOSE i \in DOMAIN token : token[i] = "."
    ELSE Len(token) + 1

\* float(token) as <<numerator, denominator>>
FloatAt(token, dot) ==
    <<DigitsValue(SubSeq(token, 1, dot - 1)) * Pow10(Len(token) - dot)
        + DigitsValue(SubSeq(token, dot + 1, Len(token))),
      Pow10(IF dot > Len(token) THEN 0 ELSE Len(token) - dot)>>

Float(token) ==
    IF DotPos(token) > Len(token)
    THEN <<DigitsValue(token), 1>>
    ELSE FloatAt(token, DotPos(token))

\* int(years * 12)
MutYearsUnconverted(years) == years[1] \div years[2]

YearsToMonths(years) == (years[1] * 12) \div years[2]

\* int(months)
WholeMonths(months) == months[1] \div months[2]

ParsedYears(duration_str) ==
    IF MatchStarts(duration_str, "y") = {} THEN 0
    ELSE YearsToMonths(Float(Group1(duration_str, MatchStarts(duration_str, "y"))))

ParsedMonths(duration_str) ==
    IF MatchStarts(duration_str, "m") = {} THEN 0
    ELSE WholeMonths(Float(Group1(duration_str, MatchStarts(duration_str, "m"))))

DurationStrMonths(duration_str) ==
    ParsedYears(duration_str) + ParsedMonths(duration_str)

\* workplace_months of PRIORITY 1
WorkDurationMonths(work_duration) ==
    DurationStrMonths(Strip(StrLower(work_duration)))

\* A value of duration_months: an int, a str, or the float infinity that
\* json.loads makes of Infinity and of 1e999.
IntValue(n) == [type |-> "int", int |-> n, str |-> <<>>]
StrValue(s) == [type |-> "str", int |-> 0, str |-> s]
InfValue == [type |-> "inf", int |-> 0, str |-> <<>>]

Truthy(v) ==
    IF v.type = "int" THEN v.int # 0
    ELSE IF v.type = "inf" THEN TRUE
    ELSE v.str # <<>>

Unsigned(s) ==
    IF s # <<>> /\ (Head(s) = "-" \/ Head(s) = "+") THEN Tail(s) ELSE s

Sign(s) == IF s # <<>> /\ Head(s) = "-" THEN -1 ELSE 1

\* int() of a str: surrounding blanks, an optional sign, digits.
IntOfStripped(s) ==
    IF isdigit(Unsigned(s))
    THEN [raised |-> FALSE, value |-> Sign(s) * DigitsValue(Unsigned(s))]
    ELSE [raised |-> TRUE, value |-> 0]

\* int(v); raised: int() raised, whatever the exception.
IntOf(v) ==
    IF v.type = "int" THEN [raised |-> FALSE, value |-> v.int]
    ELSE IF v.type = "inf" THEN [raised |-> TRUE, value |-> 0]
    ELSE IntOfStripped(Strip(v.str))

\* int(float('inf')) raises OverflowError, an ArithmeticError: not one of
\* (ValueError, TypeError, AttributeError).
IntOverflows(v) == v.type = "inf"

\* max(0, n)
MutNoClamp(n) == n

Max0(n) == IF n > 0 THEN n ELSE 0

IsLeap(year) == year % 4 = 0 /\ (year % 100 # 0 \/ year % 400 = 0)

DaysInMonth(year, month) ==
    IF month = 2 THEN (IF IsLeap(year) THEN 29 ELSE 28)
    ELSE IF month \in {4, 6, 9, 11} THEN 30 ELSE 31

\* %Y: four digits, a year datetime accepts
YearOk(p) == Len(p) = 4 /\ isdigit(p) /\ DigitsValue(p) >= 1

\* %m: 1[0-2] | 0[1-9] | [1-9]
MonthOk(p) ==
    isdigit(p) /\ Len(p) <= 2 /\ DigitsValue(p) >= 1 /\ DigitsValue(p) <= 12

\* %d: 3[01] | [12]\d | 0[1-9] | [1-9] | " "[1-9]
DayToken(p) == IF Len(p) = 2 /\ p[1] = " " THEN Tail(p) ELSE p

DayOk(p, year, month) ==
    /\ isdigit(DayToken(p))
    /\ Len(p) <= 2
    /\ DigitsValue(DayToken(p)) >= 1
    /\ DigitsValue(DayToken(p)) <= DaysInMonth(year, month)

DateError == [raised |-> TRUE, year |-> 0, month |-> 0]

DateOf(year, month) ==
    [raised |-> FALSE, year |-> DigitsValue(year), month |-> DigitsValue(month)]

\* datetime.strptime(s, "%Y-%m")
StrptimeYM(parts) ==
    IF Len(parts) = 2 /\ YearOk(parts[1]) /\ MonthOk(parts[2])
    THEN DateOf(parts[1], parts[2])
    ELSE DateError

\* datetime.strptime(s, "%Y-%m-%d")
StrptimeYMD(parts) ==
    IF /\ Len(parts) = 3
       /\ YearOk(parts[1])
       /\ MonthOk(parts[2])
       /\ DayOk(parts[3], DigitsValue(parts[1]), DigitsValue(parts[2]))
    THEN DateOf(parts[1], parts[2])
    ELSE DateError

First10(s) == SubSeq(s, 1, IF Len(s) < 10 THEN Len(s) ELSE 10)

\* YYYY-MM when the text has 7 characters, else YYYY-MM-DD of its first 10
ParseStripped(s) ==
    IF Len(s) = 7 THEN StrptimeYM(SplitHyphen(s))
    ELSE StrptimeYMD(SplitHyphen(First10(s)))

ParseDate(date) == ParseStripped(Strip(date))

MonthsBetween(start, end) ==
    IF start.raised \/ end.raised THEN 0
    ELSE Max0((end.year - start.year) * 12 + (end.month - start.month))

\* A workplace dict: the keys it has and their values.
Workplace(keys, work_duration, duration_months, start_date, end_date) ==
    [keys |-> keys, work_duration |-> work_duration,
     duration_months |-> duration_months,
     start_date |-> start_date, end_date |-> end_date]

\* PRIORITY 3
FromDates(workplace) ==
    IF "start_date" \in workplace.keys /\ "end_date" \in workplace.keys
    THEN MonthsBetween(ParseDate(workplace.start_date),
                       ParseDate(workplace.end_date))
    ELSE 0

\* PRIORITY 2, PRIORITY 3 after it; a ValueError of int() ends the entry.
FromDurationMonths(workplace) ==
    IF "duration_months" \in workplace.keys /\ Truthy(workplace.duration_months)
    THEN (IF IntOf(workplace.duration_months).raised THEN 0
          ELSE Max0(IntOf(workplace.duration_months).value))
    ELSE FromDates(workplace)

MutPhraseAlwaysDecides(workplace_months) == TRUE

\* if workplace_months > 0: ... continue
PhraseDecides(workplace_months) == workplace_months > 0

FromWorkDuration(workplace, workplace_months) ==
    IF PhraseDecides(workplace_months) THEN workplace_months
    ELSE FromDurationMonths(workplace)

\* One turn of the loop: what the entry adds to total_months.
WorkplaceMonths(workplace) ==
    IF "work_duration" \in workplace.keys /\ workplace.work_duration # <<>>
    THEN FromWorkDuration(workplace, WorkDurationMonths(workplace.work_duration))
    ELSE FromDurationMonths(workplace)

\* total_months at the return statement, when the loop has come to its end.
RECURSIVE calculate_total_experience_duration(_)
calculate_total_experience_duration(workplaces) ==
    IF workplaces = <<>> THEN 0
    ELSE WorkplaceMonths(Head(workplaces))
         + calculate_total_experience_duration(Tail(workplaces))

\* The turn of the loop for this entry reaches PRIORITY 2.
ReachesDurationMonths(workplace) ==
    ~("work_duration" \in workplace.keys /\ workplace.work_duration # <<>> /\
      PhraseDecides(WorkDurationMonths(workplace.work_duration)))

\* The turn of the loop for this entry raises an exception the except clause
\* does not catch, which leaves the function.
Escapes(workplace) ==
    /\ ReachesDurationMonths(workplace)
    /\ "duration_months" \in workplace.keys
    /\ Truthy(workplace.duration_months)
    /\ IntOverflows(workplace.duration_months)

DurationRaises(workplaces) == \E i \in DOMAIN workplaces : Escapes(workplaces[i])

\* Workplace entries of the harness
TextTwoYears   == <<"2"," ","y","e","a","r","s">>
TextYearsMonths ==
    <<"1",".","5"," ","Y","r","s"," ","3"," ","m","o","n","t","h","s">>
TextSixMonths  == <<"6"," ","m","o","n","t","h","s">>
TextLong       == <<"l","o","n","g">>
TextZeroYears  == <<"0"," ","y">>
TextAbc        == <<"a","b","c">>
TextSeven      == <<" ","7">>
TextGarbage    == <<"g","a","r","b","a","g","e">>
Date2020Jan    == <<"2","0","2","0","-","0","1">>
Date2020Jul    == <<"2","0","2","0","-","0","7">>
Date2021Mar15  == <<"2","0","2","1","-","0","3","-","1","5">>
Date2021Feb30  == <<"2","0","2","1","-","0","2","-","3","0">>
Date2020M13    == <<"2","0","2","0","-","1","3">>
Date2021Jul    == <<"2","0","2","1","-","0","7">>

NoMonths == IntValue(0)
DateKeys == {"start_date", "end_date"}

EntryTwoYears ==
    Workplace({"work_duration"}, TextTwoYears, NoMonths, <<>>, <<>>)
EntryYearsMonths ==
    Workplace({"work_duration"}, TextYearsMonths, NoMonths, <<>>, <<>>)
EntryPhraseAndCount ==
    Workplace({"work_duration", "duration_months"}, TextSixMonths, IntValue(9),
              <<>>, <<>>)
EntryNoNumber ==
    Workplace({"work_duration", "duration_months"}, TextLong, IntValue(6),
              <<>>, <<>>)
EntryZeroYears ==
    Workplace({"work_duration"} \cup DateKeys, TextZeroYears, NoMonths,
              Date2020Jan, Date2020Jul)
EntryCountZero ==
    Workplace({"duration_months"} \cup DateKeys, <<>>, IntValue(0),
              Date2020Jan, Date2021Mar15)
EntryCountText ==
    Workplace({"duration_months"} \cup DateKeys, <<>>, StrValue(TextAbc),
              Date2020Jan, Date2020Jul)
EntryCountString ==
    Workplace({"duration_months"}, <<>>, StrValue(TextSeven), <<>>, <<>>)
EntryCountNegative ==
    Workplace({"duration_months"}, <<>>, IntValue(-3), <<>>, <<>>)
EntryBackwards ==
    Workplace(DateKeys, <<>>, NoMonths, Date2021Mar15, Date2020Jan)
EntryBadMonth ==
    Workplace(DateKeys, <<>>, NoMonths, Date2020M13, Date2021Mar15)
EntryBadDay ==
    Workplace(DateKeys, <<>>, NoMonths, Date2020Jan, Date2021Feb30)
EntryStartOnly ==
    Workplace({"start_date"}, <<>>, NoMonths, Date2020Jan, <<>>)
EntrySixMonths ==
    Workplace({"work_duration"}, TextSixMonths, NoMonths, <<>>, <<>>)
EntryGarbage ==
    Workplace({"work_duration"}, TextGarbage, NoMonths, <<>>, <<>>)
EntryEighteen ==
    Workplace(DateKeys, <<>>, NoMonths, Date2020Jan, Date2021Jul)
EntryCountInfinite ==
    Workplace({"duration_months"}, <<>>, InfValue, <<>>, <<>>)

WorkplaceEntries ==
    {EntryTwoYears, EntryYearsMonths, EntryPhraseAndCount, EntryNoNumber,
     EntryZeroYears, EntryCountZero, EntryCountText, EntryCountString,
     EntryCountNegative, EntryBackwards, EntryBadMonth, EntryBadDay,
     EntryStartOnly, EntrySixMonths, EntryGarbage, EntryEighteen,
     EntryCountInfinite}

WorkplaceLists == UNION {[1..n -> WorkplaceEntries] : n \in 0..MaxWorkplaces}

InitDuration ==
    /\ InitDb
    /\ fn = "none"
    /\ ret = <<>>
    /\ args \in WorkplaceLists

\* The call returns total_months, or an exception leaves it.
CallCalculateDuration ==
    /\ fn = "none"
    /\ IF DurationRaises(args)
       THEN fn' = "calculate_total_experience_duration raised" /\ ret' = "OverflowError"
       ELSE fn' = "calculate_total_experience_duration" /\
            ret' = calculate_total_experience_duration(args)
    /\ UNCHANGED <<args, dbvars, reqvars, procvars>>

NextDuration == CallCalculateDuration

SpecDuration == InitDuration /\ [][NextDuration]_vars

\* ------------------------------------------------------------------------
\* db/crud.py: save_experience
\* ------------------------------------------------------------------------
\* round(total_duration_months / 12.0, 1) as <<whole, tenth>>: ties of the
\* binary quotient go to the even tenth.
MutRoundTenthsUp(q, rem) == IF rem = 0 THEN q ELSE q + 1

RoundTenths(q, rem) ==
    IF rem < 3 THEN q
    ELSE IF rem > 3 THEN q + 1
    ELSE IF q % 2 = 0 THEN q ELSE q + 1

YearsFloat(total_duration_months) ==
    <<RoundTenths((5 * total_duration_months) \div 6,
                  (5 * total_duration_months) % 6) \div 10,
      RoundTenths((5 * total_duration_months) \div 6,
                  (5 * total_duration_months) % 6) % 10>>

\* experience_years_int = int(total_duration_months / 12)
ExperienceYearsInt(total_duration_months) == total_duration_months \div 12

\* The columns save_experience writes, from experience_data and the total.
ExperienceColumns(experience_data, total_duration_months) ==
    [primary_skill    |-> experience_data.primary_skill,
     experience_years |->
         IF experience_data.workplaces # <<>> /\ total_duration_months > 0
         THEN ExperienceYearsInt(total_duration_months)
         ELSE experience_data.experience_years,
     workplaces       |-> experience_data.workplaces,
     total_experience_duration |-> total_duration_months,
     experience_years_float    |->
         IF experience_data.workplaces # <<>> /\ total_duration_months > 0
         THEN YearsFloat(total_duration_months)
         ELSE <<>>]

ExperienceRow(id, columns) ==
    [id |-> id, primary_skill |-> columns.primary_skill,
     experience_years |-> columns.experience_years,
     workplaces |-> columns.workplaces,
     total_experience_duration |-> columns.total_experience_duration,
     experience_years_float |-> columns.experience_years_float]

MutNeverExisting(rows) == 0

\* SELECT id ... ORDER BY created_at DESC LIMIT 1: 0 stands for no row.
ExistingId(rows) == IF rows = <<>> THEN 0 ELSE rows[Len(rows)].id

\* UPDATE ... WHERE worker_id = ? AND id = ?
UpdateExperience(rows, id, columns) ==
    [i \in DOMAIN rows |->
        IF rows[i].id = id THEN ExperienceRow(id, columns) ELSE rows[i]]

ExperienceInputs ==
    [primary_skill    : {"Electrician", "Welder"},
     experience_years : {0, 3},
     workplaces       : {<<>>, <<EntryTwoYears>>, <<EntryNoNumber>>,
                         <<EntryYearsMonths, EntryCountZero>>,
                         <<EntryStartOnly>>}]

SaveExperienceRow(experience_data, columns, existing) ==
    IF existing # 0
    THEN /\ work_experience' = UpdateExperience(work_experience, existing, columns)
         /\ sqlite_sequence' = sqlite_sequence
         /\ ret' = [returned |-> TRUE, logged |-> "Experience updated"]
    ELSE /\ sqlite_sequence < MaxSequence
         /\ work_experience' =
                Append(work_experience, ExperienceRow(sqlite_sequence + 1, columns))
         /\ sqlite_sequence' = sqlite_sequence + 1
         /\ ret' = [returned |-> TRUE, logged |-> "Experience saved"]

save_experience ==
    /\ Begin(NoPersonal, <<>>)
    /\ \E experience_data \in ExperienceInputs :
          /\ SaveExperienceRow(
                 experience_data,
                 ExperienceColumns(
                     experience_data,
                     calculate_total_experience_duration(experience_data.workplaces)),
                 ExistingId(work_experience))
          /\ fn' = "save_experience"
          /\ args' = experience_data
    /\ UNCHANGED <<worker, docs, pending, files, cvvars, sessvars, procvars>>

NextExperience ==
    \/ save_experience
    \/ delete_personal_data
    \/ delete_all_data

SpecExperience == Init /\ [][NextExperience]_vars

\* Largest total_duration_months handed to the function harness.
MaxTotalMonths == 120

\* The two year figures save_experience derives from a total > 0.
InitYears ==
    /\ InitDb
    /\ fn = "none"
    /\ ret = <<>>
    /\ args \in 1..MaxTotalMonths

CallExperienceYears ==
    /\ fn = "none"
    /\ fn' = "experience_years"
    /\ ret' = [experience_years       |-> ExperienceYearsInt(args),
               experience_years_float |-> YearsFloat(args)]
    /\ UNCHANGED <<args, dbvars, reqvars, procvars>>

NextYears == CallExperienceYears

SpecYears == InitYears /\ [][NextYears]_vars

\* ------------------------------------------------------------------------
\* services/cv_generator.py: html_to_pdf and its two renderers
\* ------------------------------------------------------------------------
\* What the Playwright (Chromium) renderer meets: the package is missing, the
\* render raises, it leaves no or an empty file, a file without the %PDF
\* magic, or a PDF.
PlaywrightOutcomes ==
    {"ImportError", "Exception", "no file", "empty file", "not %PDF", "%PDF"}

\* What the xhtml2pdf (pisa) renderer meets: the package is missing, the
\* output directory cannot be made, pisa reports errors, CreatePDF raises, the
\* file is empty, lacks the %PDF magic, or is a PDF.
PisaOutcomes ==
    {"ImportError", "OSError", "pisa_status.err", "Exception", "empty file",
     "not %PDF", "%PDF"}

\* Seconds the Chromium render takes.
RenderSeconds == {5, 61, 90}

\* future.result(timeout=60)
ResultTimeout == 60

\* _html_to_pdf_playwright: True only for a non-empty file with the magic.
html_to_pdf_playwright(outcome) == outcome = "%PDF"

\* _try_playwright: an exception of the renderer counts as False.
try_playwright(outcome) == html_to_pdf_playwright(outcome)

\* _html_to_pdf_pisa: mkdir stands outside the try block.
html_to_pdf_pisa(outcome) ==
    [raised   |-> IF outcome = "OSError" THEN "OSError" ELSE "none",
     returned |-> outcome = "%PDF"]

\* In a running event loop the result of the worker thread is awaited for
\* ResultTimeout seconds; the TimeoutError of future.result is not caught.
\* A missing package answers at once, whatever a render would take.
PlaywrightTimesOut(in_async, playwright, seconds) ==
    in_async /\ playwright # "ImportError" /\ seconds > ResultTimeout

\* html_to_pdf: the renderers attempted, in order, and how the call ended.
html_to_pdf(in_async, playwright, seconds, pisa) ==
    IF PlaywrightTimesOut(in_async, playwright, seconds)
    THEN [attempted |-> <<"playwright">>, raised |-> "TimeoutError",
          returned |-> FALSE]
    ELSE IF try_playwright(playwright)
    THEN [attempted |-> <<"playwright">>, raised |-> "none",
          returned |-> TRUE]
    ELSE [attempted |-> <<"playwright", "pisa">>,
          raised    |-> html_to_pdf_pisa(pisa).raised,
          returned  |-> html_to_pdf_pisa(pisa).returned]

InitPdf ==
    /\ InitDb
    /\ fn = "none"
    /\ ret = <<>>
    /\ args \in [in_async   : BOOLEAN,
                 playwright : PlaywrightOutcomes,
                 seconds    : RenderSeconds,
                 pisa       : PisaOutcomes]

CallHtmlToPdf ==
    /\ fn = "none"
    /\ fn' = "html_to_pdf"
    /\ ret' = html_to_pdf(args.in_async, args.playwright, args.seconds,
                          args.pisa)
    /\ UNCHANGED <<args, dbvars, reqvars, procvars>>

NextPdf == CallHtmlToPdf

SpecPdf == InitPdf /\ [][NextPdf]_vars

\* ------------------------------------------------------------------------
\* api/voice.py: confirm_experience, with save_cv of services/cv_generator.py
\* ------------------------------------------------------------------------
\* Most CV_<worker_id>_<timestamp> renderings kept in CVS_DIR.
MaxCvs == 2

\* What is at the .pdf path of a rendering: "none", "empty", "not %PDF",
\* "partial" or "%PDF".  The file after the Playwright renderer met outcome:
PdfAfterPlaywright(before, outcome) ==
    IF outcome \in {"ImportError", "Exception", "no file"} THEN before
    ELSE IF outcome = "empty file" THEN "empty"
    ELSE outcome

\* The file at pdf_path after the pisa renderer met outcome: open(pdf_path,
\* "wb") truncates it, and an empty result is unlinked.
PdfAfterPisa(before, outcome) ==
    IF outcome \in {"ImportError", "OSError"} THEN before
    ELSE IF outcome \in {"pisa_status.err", "Exception"} THEN "partial"
    ELSE IF outcome = "empty file" THEN "none"
    ELSE outcome

\* The file at pdf_path after html_to_pdf; the worker thread of a call that
\* timed out is waited for when the executor is left.
PdfAfter(before, in_async, playwright, seconds, pisa) ==
    IF PlaywrightTimesOut(in_async, playwright, seconds)
           \/ try_playwright(playwright)
    THEN PdfAfterPlaywright(before, playwright)
    ELSE PdfAfterPisa(PdfAfterPlaywright(before, playwright), pisa)

\* confirm_experience is a coroutine: html_to_pdf finds a running loop.
PdfAttempts ==
    [in_async   : {TRUE},
     playwright : PlaywrightOutcomes,
     seconds    : RenderSeconds,
     pisa       : PisaOutcomes]

HtmlToPdf(attempt) ==
    html_to_pdf(attempt.in_async, attempt.playwright, attempt.seconds,
                attempt.pisa)

\* The newest rendering's .pdf after one more html_to_pdf.
WithPdf(cvs, attempt) ==
    [cvs EXCEPT !.rendered[Len(cvs.rendered)].pdf =
        PdfAfter(@, attempt.in_async, attempt.playwright, attempt.seconds,
                 attempt.pisa)]

IsAlnum(c) ==
    \/ IsUpperLetter(c)
    \/ IsDigit(c)
    \/ \E i \in DOMAIN LowerLetters : LowerLetters[i] = c

\* safe_name is not empty: the worker's name has a letter or a digit.
HasSafeName(name) == \E i \in DOMAIN name : IsAlnum(name[i])

\* crud.mark_cv_generated: UPDATE, or INSERT when there is no row.
mark_cv_generated == [exists |-> TRUE, has_cv |-> TRUE]

\* The experience confirmed by the caller.
ConfirmInputs ==
    {[primary_skill |-> "Electrician", experience_years |-> 3,
      workplaces |-> <<EntryTwoYears>>],
     [primary_skill |-> "Welder", experience_years |-> 0,
      workplaces |-> <<>>]}

\* The rows and files as the request found them, kept with the request.
Snapshot(experience) ==
    [experience |-> experience,
     before     |-> [work_experience |-> work_experience,
                     sqlite_sequence |-> sqlite_sequence,
                     cv_status       |-> cv_status,
                     cv_files        |-> cv_files,
                     embedding       |-> embedding]]

\* return JSONResponse(status_code=200, ...)
Response200(has_cv) ==
    [status_code |-> 200, detail |-> "success", has_cv |-> has_cv]

\* raise HTTPException(status_code=500, detail="Failed to generate CV: ...")
Response500 == [status_code |-> 500, detail |-> "Failed to generate CV"]

\* POST /experience/confirm for an existing worker and a voice session with
\* exp_ready: crud.save_experience commits, then save_cv follows.
confirm_experience ==
    /\ voice_session.exists
    /\ voice_session.exp_ready
    /\ Len(cv_files.rendered) < MaxCvs
    /\ Begin(NoPersonal, <<Step("save_cv")>>)
    /\ \E experience \in ConfirmInputs :
          /\ SaveExperienceRow(
                 experience,
                 ExperienceColumns(
                     experience,
                     calculate_total_experience_duration(experience.workplaces)),
                 ExistingId(work_experience))
          /\ fn' = "save_experience"
          /\ args' = Snapshot(experience)
    /\ UNCHANGED <<worker, docs, pending, files, cvvars, sessvars, procvars>>

\* The handler that called save_cv, by what fn holds while it runs:
\* confirm_experience has just saved the experience.
Caller(f) == IF f = "save_experience" THEN "confirm_experience" ELSE f

\* save_cv succeeded: the <name>_Resume copies, mark_cv_generated, then the
\* embedding (a failure there is only logged) and the 200 response.
CvGenerated(cvs) ==
    /\ cv_files' = [cvs EXCEPT !.resume = @ \/ HasSafeName(worker.name)]
    /\ cv_status' = mark_cv_generated
    /\ \E stored \in BOOLEAN : embedding' = (embedding \/ stored)
    /\ fn' = Caller(fn)
    /\ ret' = Response200(TRUE)
    /\ Done(loc)

\* save_cv raised: confirm_experience and the link endpoint answer 500;
\* finalize_conversation logs the error, stores the embedding all the same
\* and the webhook answers 200.
CvFailed(cvs) ==
    /\ cv_files' = cvs
    /\ fn' = Caller(fn)
    /\ ret' = IF fn = "finalize_conversation" THEN Response200(FALSE)
              ELSE Response500
    /\ \E stored \in BOOLEAN :
          embedding' = (embedding \/ (stored /\ fn = "finalize_conversation"))
    /\ Done(loc)
    /\ cv_status' = cv_status

\* save_cv: the .html and the .txt are written, then html_to_pdf.
save_cv ==
    /\ Running("save_cv")
    /\ \E attempt \in PdfAttempts :
          \E cvs \in {WithPdf([cv_files EXCEPT !.rendered =
                          Append(@, [html |-> TRUE, txt |-> TRUE,
                                     pdf |-> "none"])], attempt)} :
             IF HtmlToPdf(attempt).raised # "none" THEN CvFailed(cvs)
             ELSE IF HtmlToPdf(attempt).returned THEN CvGenerated(cvs)
             ELSE /\ cv_files' = cvs
                  /\ todo' = <<Step("retry_html_to_pdf")>>
                  /\ UNCHANGED <<loc, crashed, cv_status, embedding, harness>>
    /\ UNCHANGED <<worker, docs, pending, files, work_experience,
                   sqlite_sequence, sessvars, procvars, args>>

\* save_cv: "First PDF generation attempt failed, retrying..."
retry_html_to_pdf ==
    /\ Running("retry_html_to_pdf")
    /\ \E attempt \in PdfAttempts :
          \E cvs \in {WithPdf(cv_files, attempt)} :
             IF HtmlToPdf(attempt).raised = "none" /\ HtmlToPdf(attempt).returned
             THEN CvGenerated(cvs)
             ELSE CvFailed(cvs)
    /\ UNCHANGED <<worker, docs, pending, files, work_experience,
                   sqlite_sequence, sessvars, procvars, args>>

\* The personal data of a worker whose review was submitted before.
ConfirmPersonal == [name |-> NameSureshK, dob |-> Dob1987, address |-> TRUE]

\* The session of a call whose transcript was submitted for the worker: the
\* extracted experience waits for confirmation.
ReadyVoiceSession(experience) ==
    update_voice_session(create_voice_session(TRUE), 4, "completed", <<>>,
                         <<<<"6", " ", "s", "a", "a", "l">>>>, <<experience>>,
                         <<TRUE>>)

\* A worker as created, or one whose personal data were saved before; the
\* call's transcript was submitted.
InitConfirm ==
    /\ \E named \in BOOLEAN :
          /\ worker = IF named
                      THEN UpdateWorkers(InitWorker,
                                         SavedPersonal(ConfirmPersonal).name,
                                         SavedPersonal(ConfirmPersonal).dob,
                                         SavedPersonal(ConfirmPersonal).address)
                      ELSE InitWorker
          /\ files = [personal |-> named, educational |-> 0]
    /\ docs = <<>>
    /\ pending = NoPending
    /\ work_experience = <<>>
    /\ sqlite_sequence = 0
    /\ cv_status = NoCvStatus
    /\ cv_files = NoCvFiles
    /\ embedding = FALSE
    /\ \E experience \in ConfirmInputs :
          voice_session = ReadyVoiceSession(experience)
    /\ experience_session = NoExperienceSession
    /\ ocr_instance = NoOcrInstance
    /\ threads = <<>>
    /\ todo = <<>>
    /\ loc = LocInit
    /\ crashed = FALSE
    /\ InitHarness

NextConfirm ==
    \/ confirm_experience
    \/ save_cv
    \/ retry_html_to_pdf

SpecConfirm == InitConfirm /\ [][NextConfirm]_vars

\* ------------------------------------------------------------------------
\* services/ocr_service.py: get_ocr_instance, run by the threads of the
\* default executor (loop.run_in_executor(None, ocr_to_text, path))
\* ------------------------------------------------------------------------
\* Most worker threads of the executor.
MaxThreads == 2
\* Most PaddleOCR objects constructed in one process.
MaxConstructed == 3

\* A thread outside get_ocr_instance; ret is what its last call returned.
ThreadIdle == [pc |-> "idle", made |-> 0, ret |-> 0]

\* The executor starts one more worker thread.
StartThread ==
    /\ Len(threads) < MaxThreads
    /\ threads' = Append(threads, ThreadIdle)
    /\ UNCHANGED <<dbvars, reqvars, harness, ocr_instance>>

\* if _ocr_instance is None and PADDLEOCR_AVAILABLE:
OcrTest(t) ==
    /\ threads[t].pc = "idle"
    /\ threads' = [threads EXCEPT ![t].pc =
           IF ocr_instance.handle = 0 /\ ocr_instance.available
           THEN "construct" ELSE "return"]
    /\ UNCHANGED <<dbvars, reqvars, harness, ocr_instance>>

\* PaddleOCR(use_angle_cls=True, lang='en'): a new object, or an exception
\* (made = 0: the except branch is going to store None).
OcrConstruct(t) ==
    /\ threads[t].pc = "construct"
    /\ \/ /\ ocr_instance.constructed < MaxConstructed
          /\ ocr_instance' = [ocr_instance EXCEPT !.constructed = @ + 1]
          /\ threads' = [threads EXCEPT ![t].pc = "store",
                                        ![t].made = ocr_instance.constructed + 1]
       \/ /\ ocr_instance' = ocr_instance
          /\ threads' = [threads EXCEPT ![t].pc = "store", ![t].made = 0]
    /\ UNCHANGED <<dbvars, reqvars, harness>>

\* _ocr_instance = PaddleOCR(...), or _ocr_instance = None after an exception
OcrStore(t) ==
    /\ threads[t].pc = "store"
    /\ ocr_instance' = [ocr_instance EXCEPT !.handle = threads[t].made]
    /\ threads' = [threads EXCEPT ![t].pc = "return", ![t].made = 0]
    /\ UNCHANGED <<dbvars, reqvars, harness>>

\* return _ocr_instance
OcrReturn(t) ==
    /\ threads[t].pc = "return"
    /\ threads' = [threads EXCEPT ![t].pc = "idle",
                                  ![t].ret = ocr_instance.handle]
    /\ UNCHANGED <<dbvars, reqvars, harness, ocr_instance>>

get_ocr_instance ==
    \E t \in DOMAIN threads :
        OcrTest(t) \/ OcrConstruct(t) \/ OcrStore(t) \/ OcrReturn(t)

\* PaddleOCR was or was not importable when the module was loaded.
InitOcr ==
    /\ InitRows
    /\ InitHarness
    /\ threads = <<>>
    /\ \E available \in BOOLEAN :
          ocr_instance = [NoOcrInstance EXCEPT !.available = available]

NextOcr ==
    \/ StartThread
    \/ get_ocr_instance

SpecOcr == InitOcr /\ [][NextOcr]_vars

\* ------------------------------------------------------------------------
\* api/experience.py: the chat session that collects a worker's experience
\* ------------------------------------------------------------------------
\* The field stored for question q is SYSTEM_QUESTIONS[q + 1].
SYSTEM_QUESTIONS ==
    <<"consent", "primary_skill", "experience_years", "skills", "tools",
      "preferred_location">>

\* request.message
ChatMessages ==
    {<<>>, <<" ">>, <<"h", "a", "a", "n">>, <<"N", "a", "h", "i">>,
     <<"3", " ", "s", "a", "a", "l">>, <<"n", "o", "w">>}

\* sub in s
Contains(sub, s) ==
    \E i \in 1..(Len(s) - Len(sub) + 1) : SubSeq(s, i, i + Len(sub) - 1) = sub

\* "nahi" in user_message.lower() or "no" in ... or "nhi" in ...
Declines(user_message) ==
    \/ Contains(<<"n", "a", "h", "i">>, StrLower(user_message))
    \/ Contains(<<"n", "o">>, StrLower(user_message))
    \/ Contains(<<"n", "h", "i">>, StrLower(user_message))

\* crud.update_experience_session: one UPDATE and its commit.
update_experience_session(session, current_question, raw_conversation, status) ==
    [session EXCEPT !.current_question = current_question,
                    !.raw_conversation = raw_conversation,
                    !.status = status]

\* raw_conversation[field] = user_message, for a question that exists.
Answered(raw_conversation, current_question) ==
    IF current_question + 1 \in DOMAIN SYSTEM_QUESTIONS
    THEN raw_conversation \cup {SYSTEM_QUESTIONS[current_question + 1]}
    ELSE raw_conversation

MutSessionAlwaysActive(session) == TRUE

\* session["status"] == "active"
SessionIsActive(session) == session.status = "active"

\* chat_message past its three rejections.
StoreAnswer(session, user_message) ==
    IF session.current_question = 0 /\ Declines(user_message)
    THEN update_experience_session(session, session.current_question + 1,
                                   Answered(session.raw_conversation, 0),
                                   "declined")
    ELSE IF session.current_question + 1 >= Len(SYSTEM_QUESTIONS)
    THEN update_experience_session(
             session, session.current_question + 1,
             Answered(session.raw_conversation, session.current_question),
             "completed")
    ELSE update_experience_session(
             session, session.current_question + 1,
             Answered(session.raw_conversation, session.current_question),
             "active")

ChatResponse(status_code, detail) ==
    [status_code |-> status_code, detail |-> detail]

\* POST /api/experience/start: crud.create_experience_session INSERTs the row
\* of a new session_id.
start_experience_session ==
    /\ ~experience_session.exists
    /\ Begin(NoPersonal, <<>>)
    /\ experience_session' = [NoExperienceSession EXCEPT !.exists = TRUE]
    /\ fn' = "start_experience_session"
    /\ args' = <<>>
    /\ ret' = ChatResponse(200, "question 0")
    /\ UNCHANGED <<worker, docs, pending, files, work_experience,
                   sqlite_sequence, cvvars, voice_session, procvars>>

\* POST /api/experience/chat
chat_message ==
    /\ Begin(NoPersonal, <<>>)
    /\ \E message \in ChatMessages :
          /\ fn' = "chat_message"
          /\ args' = message
          /\ IF Strip(message) = <<>>
             THEN /\ ret' = ChatResponse(400, "Message cannot be empty")
                  /\ experience_session' = experience_session
             ELSE IF ~experience_session.exists
             THEN /\ ret' = ChatResponse(404, "Session not found")
                  /\ experience_session' = experience_session
             ELSE IF ~SessionIsActive(experience_session)
             THEN /\ ret' = ChatResponse(400, "Session is not active")
                  /\ experience_session' = experience_session
             ELSE /\ experience_session' =
                        StoreAnswer(experience_session, Strip(message))
                  /\ ret' = ChatResponse(200, experience_session'.status)
    /\ UNCHANGED <<worker, docs, pending, files, work_experience,
                   sqlite_sequence, cvvars, voice_session, procvars>>

\* extract_from_responses: the skill and the years read from the answers.
StructuredData ==
    {experience_data \in ExperienceInputs : experience_data.workplaces = <<>>}

\* POST /api/experience/extract: crud.save_experience commits, then
\* update_experience_session_with_structured_data follows.
extract_experience ==
    /\ fn' = "extract_experience"
    /\ IF ~experience_session.exists
       THEN /\ Begin(NoPersonal, <<>>)
            /\ ret' = ChatResponse(404, "Session not found")
            /\ args' = <<>>
            /\ UNCHANGED <<work_experience, sqlite_sequence>>
       ELSE IF experience_session.status # "completed"
       THEN /\ Begin(NoPersonal, <<>>)
            /\ ret' = ChatResponse(400, "Session must be completed before extraction")
            /\ args' = <<>>
            /\ UNCHANGED <<work_experience, sqlite_sequence>>
       ELSE IF experience_session.raw_conversation = {}
       THEN /\ Begin(NoPersonal, <<>>)
            /\ ret' = ChatResponse(400, "No conversation data found")
            /\ args' = <<>>
            /\ UNCHANGED <<work_experience, sqlite_sequence>>
       ELSE /\ Begin(NoPersonal, <<Step("update_structured_data")>>)
            /\ \E structured_data \in StructuredData :
                  /\ SaveExperienceRow(
                         structured_data,
                         ExperienceColumns(
                             structured_data,
                             calculate_total_experience_duration(
                                 structured_data.workplaces)),
                         ExistingId(work_experience))
                  /\ args' = structured_data
    /\ UNCHANGED <<worker, docs, pending, files, cvvars, sessvars, procvars>>

\* crud.update_experience_session_with_structured_data: an UPDATE by
\* session_id, which changes no row when the session was never there.
update_experience_session_with_structured_data ==
    /\ Running("update_structured_data")
    /\ experience_session' =
          IF experience_session.exists
          THEN [experience_session EXCEPT !.structured_data = TRUE]
          ELSE experience_session
    /\ Done(loc)
    /\ UNCHANGED <<worker, docs, pending, files, work_experience,
                   sqlite_sequence, cvvars, voice_session, procvars, harness>>

NextChat ==
    \/ start_experience_session
    \/ chat_message
    \/ extract_experience
    \/ update_experience_session_with_structured_data
    \/ delete_personal_data
    \/ Crash

SpecChat == Init /\ [][NextChat]_vars

\* ------------------------------------------------------------------------
\* db/crud.py: save_experience called for one worker from several callers
\* at once, each on its own connection: the SELECT of the newest row, then
\* the UPDATE or INSERT and its commit.  SQLite runs each statement whole.
\* ------------------------------------------------------------------------
\* A caller that has entered save_experience with experience_data.
SaveCall(experience_data) ==
    [pc |-> "select", experience_data |-> experience_data, existing |-> 0,
     committed |-> 0]

Committed == {t \in DOMAIN threads : threads[t].pc = "done"}

StartSaveExperience ==
    /\ Len(threads) < MaxThreads
    /\ \E experience_data \in ExperienceInputs :
          threads' = Append(threads, SaveCall(experience_data))
    /\ UNCHANGED <<dbvars, reqvars, harness, ocr_instance>>

\* cursor.execute("SELECT id FROM work_experience WHERE worker_id = ? ...");
\* existing = cursor.fetchone()
SelectExisting(t) ==
    /\ threads[t].pc = "select"
    /\ threads' = [threads EXCEPT ![t].pc = "write",
                                  ![t].existing = ExistingId(work_experience)]
    /\ UNCHANGED <<dbvars, reqvars, harness, ocr_instance>>

\* if existing: UPDATE ... WHERE worker_id = ? AND id = ?  else: INSERT;
\* conn.commit()
WriteExperience(t) ==
    /\ threads[t].pc = "write"
    /\ \E columns \in {ExperienceColumns(
                           threads[t].experience_data,
                           calculate_total_experience_duration(
                               threads[t].experience_data.workplaces))} :
          IF threads[t].existing # 0
          THEN /\ work_experience' =
                      UpdateExperience(work_experience, threads[t].existing, columns)
               /\ sqlite_sequence' = sqlite_sequence
          ELSE /\ sqlite_sequence < MaxSequence
               /\ work_experience' =
                      Append(work_experience,
                             ExperienceRow(sqlite_sequence + 1, columns))
               /\ sqlite_sequence' = sqlite_sequence + 1
    /\ threads' = [threads EXCEPT ![t].pc = "done",
                                  ![t].committed = Cardinality(Committed) + 1]
    /\ UNCHANGED <<worker, docs, pending, files, cvvars, sessvars, reqvars,
                   harness, ocr_instance>>

concurrent_save_experience ==
    \E t \in DOMAIN threads : SelectExisting(t) \/ WriteExperience(t)

NextSave == StartSaveExperience \/ concurrent_save_experience

SpecSave == Init /\ [][NextSave]_vars

\* ------------------------------------------------------------------------
\* services/conversation_engine.py and api/voice.py: the voice session of
\* one call_id
\* ------------------------------------------------------------------------
\* Most CV renderings started by the calls of the voice agent.
MaxCallCvs == 1

\* return min(current_step + 1, 4)
get_next_step(current_step) ==
    IF current_step + 1 < 4 THEN current_step + 1 ELSE 4

is_conversation_complete(current_step) == current_step >= 4

MutAlwaysValid(current_step, response) ==
    [is_valid |-> TRUE, next_step |-> get_next_step(current_step)]

determine_next_step(current_step, response) ==
    IF response = <<>> \/ Len(response) < 2
    THEN [is_valid |-> FALSE, next_step |-> current_step]
    ELSE [is_valid |-> TRUE, next_step |-> get_next_step(current_step)]

\* input_data.speech_text
SpeechTexts ==
    {<<>>, <<"a">>, <<" ", " ">>, <<"p", "a", "i", "n", "t", "e", "r">>}

\* body.transcript
Transcripts == {<<" ">>, <<"6", " ", "s", "a", "a", "l">>}

\* existing = {} when responses_json is NULL; of the four answers the skill
\* and the years reach work_experience.
StoredResponses(session) ==
    IF session.responses_json # <<>> THEN session.responses_json[1]
    ELSE [primary_skill |-> "", experience_years |-> 0]

\* existing.update(conversation_responses): the answer parsed at current_step
WithResponse(existing, current_step, skill, years) ==
    IF current_step = 0 THEN [existing EXCEPT !.primary_skill = skill]
    ELSE IF current_step = 1 THEN [existing EXCEPT !.experience_years = years]
    ELSE existing

\* The session a handler works on: created when there is none, linked when
\* the request names a worker and the row has none.
SessionFor(session, worker_id) ==
    IF ~session.exists THEN create_voice_session(worker_id)
    ELSE IF worker_id /\ ~session.worker_id THEN crud_link_call_to_worker(session)
    ELSE session

VoiceResponse(status_code, detail) ==
    [status_code |-> status_code, detail |-> detail]

\* POST /voice/call/webhook up to its update_voice_session; with a worker and
\* a complete conversation finalize_conversation follows.
voice_webhook ==
    /\ \E worker_id \in BOOLEAN, speech_text \in SpeechTexts,
          skill \in {"Electrician"}, years \in {3} :
          \E session \in {SessionFor(voice_session, worker_id)} :
             \E next \in {determine_next_step(session.current_step, speech_text)} :
                /\ voice_session' =
                      update_voice_session(
                          session, next.next_step, "ongoing",
                          <<WithResponse(StoredResponses(session),
                                         session.current_step, skill, years)>>,
                          <<>>, <<>>, <<>>)
                /\ IF is_conversation_complete(next.next_step) /\ worker_id
                   THEN /\ Len(cv_files.rendered) < MaxCallCvs
                        /\ Begin(NoPersonal, <<Step("finalize_conversation")>>)
                   ELSE Begin(NoPersonal, <<>>)
                /\ args' = speech_text
    /\ fn' = "voice_webhook"
    /\ ret' = VoiceResponse(200, "tts_text")
    /\ UNCHANGED <<worker, docs, pending, files, work_experience,
                   sqlite_sequence, cvvars, experience_session, procvars>>

\* experience = {"primary_skill": ..., "experience_years": int(...), ...}
ExperienceFromResponses(responses) ==
    [primary_skill    |-> responses.primary_skill,
     experience_years |-> responses.experience_years,
     workplaces       |-> <<>>]

\* finalize_conversation up to save_cv: the session is completed and the
\* experience built from responses_json is saved; without responses the
\* stored experience is used.
finalize_conversation ==
    /\ Running("finalize_conversation")
    /\ voice_session' =
          update_voice_session(voice_session, 4, "completed", <<>>, <<>>,
                               <<>>, <<>>)
    /\ fn' = "finalize_conversation"
    /\ args' = args
    /\ IF voice_session.responses_json # <<>>
       THEN /\ \E experience \in
                   {ExperienceFromResponses(StoredResponses(voice_session))} :
                   SaveExperienceRow(
                       experience,
                       ExperienceColumns(
                           experience,
                           calculate_total_experience_duration(
                               experience.workplaces)),
                       ExistingId(work_experience))
            /\ todo' = <<Step("save_cv")>>
       ELSE /\ UNCHANGED <<work_experience, sqlite_sequence, ret>>
            /\ todo' = IF work_experience # <<>> THEN <<Step("save_cv")>>
                       ELSE <<>>
    /\ loc' = Locals(loc, todo')
    /\ crashed' = crashed
    /\ UNCHANGED <<worker, docs, pending, files, cvvars, experience_session,
                   procvars>>

\* POST /voice/transcript/submit up to its first update_voice_session, which
\* keeps the step and the status and clears exp_ready.
submit_transcript ==
    /\ fn' = "submit_transcript"
    /\ \E worker_id \in BOOLEAN, transcript \in Transcripts :
          /\ args' = transcript
          /\ IF Strip(transcript) = <<>>
             THEN /\ Begin(NoPersonal, <<>>)
                  /\ ret' = VoiceResponse(400, "transcript is required")
                  /\ voice_session' = voice_session
             ELSE /\ Begin(NoPersonal, <<Step("store_transcript")>>)
                  /\ ret' = ret
                  /\ \E session \in {SessionFor(voice_session, worker_id)} :
                        voice_session' =
                           update_voice_session(session, session.current_step,
                                                session.status, <<>>, <<>>,
                                                <<>>, <<FALSE>>)
    /\ UNCHANGED <<worker, docs, pending, files, work_experience,
                   sqlite_sequence, cvvars, experience_session, procvars>>

\* extract_from_transcript_comprehensive(transcript)
TranscriptOutputs == ConfirmInputs

\* submit_transcript from extract_from_transcript_comprehensive on: the
\* transcript and the extracted experience are stored with exp_ready.
store_transcript ==
    /\ Running("store_transcript")
    /\ \E experience \in TranscriptOutputs :
          voice_session' =
             update_voice_session(voice_session, 4, "completed", <<>>,
                                  <<Strip(args)>>, <<experience>>, <<TRUE>>)
    /\ ret' = VoiceResponse(200, "experience_saved False")
    /\ Done(loc)
    /\ UNCHANGED <<worker, docs, pending, files, work_experience,
                   sqlite_sequence, cvvars, experience_session, procvars,
                   fn, args>>

\* experience: json.loads(experience_json), or else extracted from the
\* transcript; None when the session has neither.
HasExperience(session) ==
    session.experience_json # <<>> \/ session.transcript # <<>>

MutNeverAwaits(session) == FALSE

\* if exp_ready and experience: the user must confirm first.
AwaitsConfirmation(session) == session.exp_ready /\ HasExperience(session)

\* POST /voice/call/link: with exp_ready and an experience the endpoint only
\* answers; with an experience and no exp_ready it saves it and save_cv
\* follows.
link_call_to_worker ==
    /\ fn' = "link_call_to_worker"
    /\ args' = <<>>
    /\ voice_session' = crud_link_call_to_worker(voice_session)
    /\ IF ~voice_session.exists
       THEN /\ Begin(NoPersonal, <<>>)
            /\ ret' = VoiceResponse(404, "Voice session not found")
            /\ UNCHANGED <<work_experience, sqlite_sequence>>
       ELSE IF AwaitsConfirmation(voice_session)
       THEN /\ Begin(NoPersonal, <<>>)
            /\ ret' = VoiceResponse(200, "Experience data available for review")
            /\ UNCHANGED <<work_experience, sqlite_sequence>>
       ELSE IF ~HasExperience(voice_session)
       THEN /\ Begin(NoPersonal, <<>>)
            /\ ret' = VoiceResponse(200, "no experience data found in session")
            /\ UNCHANGED <<work_experience, sqlite_sequence>>
       ELSE /\ Len(cv_files.rendered) < MaxCvs
            /\ Begin(NoPersonal, <<Step("save_cv")>>)
            /\ \E experience \in
                  (IF voice_session.experience_json # <<>>
                   THEN {voice_session.experience_json[1]}
                   ELSE TranscriptOutputs) :
                  SaveExperienceRow(
                      experience,
                      ExperienceColumns(
                          experience,
                          calculate_total_experience_duration(
                              experience.workplaces)),
                      ExistingId(work_experience))
    /\ UNCHANGED <<worker, docs, pending, files, cvvars, experience_session,
                   procvars>>

\* POST /voice/experience/confirm without a session, or with one whose
\* exp_ready is not set: 404 or 400 before anything is saved.
confirm_experience_rejected ==
    /\ ~(voice_session.exists /\ voice_session.exp_ready)
    /\ Begin(NoPersonal, <<>>)
    /\ fn' = "confirm_experience"
    /\ args' = <<>>
    /\ ret' = IF ~voice_session.exists
              THEN VoiceResponse(404, "Voice session not found")
              ELSE VoiceResponse(400, "Experience extraction not complete")
    /\ UNCHANGED <<dbvars, procvars>>

\* The calls of the voice agent.
NextCall ==
    \/ voice_webhook
    \/ finalize_conversation
    \/ submit_transcript
    \/ store_transcript
    \/ save_cv
    \/ retry_html_to_pdf
    \/ Crash

SpecCall == Init /\ [][NextCall]_vars

\* The transcript of a call, its link to the worker and the confirmation.
NextVoice ==
    \/ submit_transcript
    \/ store_transcript
    \/ link_call_to_worker
    \/ confirm_experience
    \/ confirm_experience_rejected
    \/ save_cv
    \/ retry_html_to_pdf
    \/ Crash

SpecVoice == Init /\ [][NextVoice]_vars

\* ------------------------------------------------------------------------
\* Properties of verify_documents (SpecVerify)
\* ------------------------------------------------------------------------
Returned == fn = "verify_documents" /\ ~ret.raised

CompleteInput ==
    /\ args.personal_name # <<>>
    /\ args.personal_dob # <<>>
    /\ args.educational_documents # <<>>

\* The two field checks of document i of the input, computed from the input.
NameCheck(i) ==
    fuzzy_match_names(args.personal_name,
                      args.educational_documents[i].extracted_name).match

DobCheck(i) ==
    exact_match_dob(args.personal_dob,
                    args.educational_documents[i].extracted_dob).match

C2_IncompleteIsPending ==
    (fn = "verify_documents" /\ ~CompleteInput) =>
        /\ ~ret.raised
        /\ ret.status = "pending"
        /\ ret.comparisons = <<>>
        /\ ret.verified_count = 0
        /\ "error" \in DOMAIN ret
        /\ ret.error # ""

\* The DOB is missing and a document that would raise in the loop is present.
C2_Witness ==
    /\ fn = "verify_documents"
    /\ args.personal_name # <<>>
    /\ args.personal_dob = <<>>
    /\ \E i \in DOMAIN args.educational_documents :
          args.educational_documents[i].extracted_dob = DobBadYear
    /\ ret.status = "pending"

\* Number of mismatch entries of the result for document id and field.
MismatchCount(id, field) ==
    Cardinality({k \in DOMAIN ret.mismatches :
                   ret.mismatches[k].document_id = id /\
                   ret.mismatches[k].field = field})

\* C3: over a non-empty document list total_count is the number of documents,
\* verified_count the number of documents whose name check and DOB check both
\* passed, overall_match is name_match and dob_match, and mismatches holds one
\* entry per failed field check of a compared document and none for a check
\* that passed.
C3_CountsAndMismatches ==
    (Returned /\ args.educational_documents # <<>>) =>
        /\ ret.total_count = Len(args.educational_documents)
        /\ ret.verified_count =
              Cardinality({i \in DOMAIN args.educational_documents :
                             NameCheck(i) /\ DobCheck(i)})
        /\ \A i \in DOMAIN ret.comparisons :
              LET c == ret.comparisons[i]
              IN  /\ c.document_id = args.educational_documents[i].id
                  /\ c.name_match = NameCheck(i)
                  /\ c.dob_match = DobCheck(i)
                  /\ c.overall_match = (c.name_match /\ c.dob_match)
                  /\ MismatchCount(c.document_id, "name") =
                        (IF c.name_match THEN 0 ELSE 1)
                  /\ MismatchCount(c.document_id, "dob") =
                        (IF c.dob_match THEN 0 ELSE 1)
        /\ \A k \in DOMAIN ret.mismatches :
              /\ ret.mismatches[k].field \in {"name", "dob"}
              /\ \E i \in DOMAIN ret.comparisons :
                    ret.comparisons[i].document_id = ret.mismatches[k].document_id

\* Two documents, the first matched, the second differs in the DOB only.
C3_Witness ==
    /\ Returned /\ CompleteInput
    /\ ret.total_count = 2
    /\ ret.verified_count = 1
    /\ ret.status = "failed"
    /\ ret.comparisons[2].name_match
    /\ ~ret.comparisons[2].dob_match
    /\ Len(ret.mismatches) = 1

\* ------------------------------------------------------------------------
\* Claims about the stored verification state
\* ------------------------------------------------------------------------
\* A request has run to its end and the result it persisted is at rest.
Persisted(status) ==
    /\ todo = <<>>
    /\ ~crashed
    /\ ~loc.verification_result.raised
    /\ loc.verification_result.status = status

\* C4: once a caller has persisted a verify_documents result whose status is
\* failed, the worker is stored as failed and every document whose
\* overall_match was true is stored as verified.
C4_MatchedStoredVerified ==
    Persisted("failed") =>
        /\ worker.verification_status = "failed"
        /\ \A k \in DOMAIN loc.verification_result.comparisons :
              loc.verification_result.comparisons[k].overall_match =>
                  docs[loc.verification_result.comparisons[k].document_id]
                      .verification_status = "verified"

StatusValues == {"pending", "verified", "failed"}

\* C5: in every reachable state the stored verification_status of the worker
\* and of every educational document is one of pending, verified, failed.
C5_StatusDomain ==
    /\ worker.verification_status \in StatusValues
    /\ \A i \in DOMAIN docs : docs[i].verification_status \in StatusValues

\* Document i has just been stored as verified.
BecomesVerified(i) ==
    /\ docs'[i].verification_status = "verified"
    /\ i \in DOMAIN docs => docs[i].verification_status # "verified"

\* The result being persisted holds a comparison of document i in which the
\* name and the DOB both matched, and the two checks give that answer on the
\* identities stored.
MatchedInResult(i) ==
    /\ ~loc.verification_result.raised
    /\ \E k \in DOMAIN loc.verification_result.comparisons :
          /\ loc.verification_result.comparisons[k].document_id = i
          /\ loc.verification_result.comparisons[k].name_match
          /\ loc.verification_result.comparisons[k].dob_match
    /\ fuzzy_match_names(worker.personal_extracted_name,
                         docs[i].extracted_name).match
    /\ ~exact_match_dob(worker.personal_extracted_dob,
                        docs[i].extracted_dob).raised
    /\ exact_match_dob(worker.personal_extracted_dob,
                       docs[i].extracted_dob).match

\* C6: a document is stored with verification_status verified only if, in
\* the verification whose result is being persisted, its extracted name
\* fuzzy-matched and its extracted DOB exactly matched the worker's personal
\* identity.
C6_VerifiedOnlyIfMatched ==
    [][\A i \in DOMAIN docs' : BecomesVerified(i) => MatchedInResult(i)]_vars

C6_Witness ==
    /\ Persisted("verified")
    /\ \E i \in DOMAIN docs : docs[i].verification_status = "verified"

\* Values a comparison of identities has produced.
ComputedValues == {"verified", "failed", "VERIFIED", "MISMATCH"}

PersonalIdentityChanges ==
    \/ worker'.personal_extracted_name # worker.personal_extracted_name
    \/ worker'.personal_extracted_dob # worker.personal_extracted_dob

KeepsComputedStatus(i) ==
    /\ i \in DOMAIN docs
    /\ docs[i].verification_status \in ComputedValues
    /\ docs'[i].verification_status = docs[i].verification_status

\* C7: when an operation has changed the worker's personal identity, no
\* document keeps the verification_status that was computed from the previous
\* identity.
C7_StatusRecomputed ==
    [][(Idle /\ PersonalIdentityChanges /\ todo' = <<>>) =>
           \A i \in DOMAIN docs' : ~KeepsComputedStatus(i)]_vars

\* C9: the commit that writes the worker's verification_status writes no
\* document, and a commit that writes a document's verification_status writes
\* one document and not the worker.
C9_SeparateCommits ==
    [][Running("commit") =>
          /\ worker' # worker => docs' = docs
          /\ docs' # docs =>
                /\ worker' = worker
                /\ Cardinality({i \in DOMAIN docs : docs'[i] # docs[i]}) = 1]_vars

\* The process died after the worker's commit and before a document's: the
\* worker carries the new status, a matched document its old one.
C9_Witness ==
    /\ crashed
    /\ ~loc.verification_result.raised
    /\ loc.verification_result.status = "verified"
    /\ worker.verification_status = "verified"
    /\ \E k \in DOMAIN loc.verification_result.comparisons :
          docs[loc.verification_result.comparisons[k].document_id]
              .verification_status # "verified"

\* ------------------------------------------------------------------------
\* Claims about the work experience
\* ------------------------------------------------------------------------
\* C8: after any sequence of save_experience calls the worker has at most one
\* work_experience row: the call that finds none inserts one, and every later
\* call overwrites that row, which keeps its id.
C8_Upsert ==
    [][/\ Len(work_experience') <= 1
       /\ save_experience => Len(work_experience') = 1
       /\ (work_experience # <<>> /\ work_experience' # <<>>) =>
              /\ work_experience'[1].id = work_experience[1].id
              /\ sqlite_sequence' = sqlite_sequence]_vars

C8_Witness ==
    /\ fn = "save_experience"
    /\ ret.logged = "Experience updated"
    /\ Len(work_experience) = 1
    /\ work_experience[1].id = 1
    /\ work_experience[1].primary_skill = args.primary_skill

PhrasePresent(workplace) ==
    "work_duration" \in workplace.keys /\ workplace.work_duration # <<>>

CountPresent(workplace) ==
    "duration_months" \in workplace.keys /\ Truthy(workplace.duration_months)

CountMonths(workplace) ==
    IF IntOf(workplace.duration_months).raised THEN 0
    ELSE Max0(IntOf(workplace.duration_months).value)

\* The first applicable rule alone: the phrase, else the count, else the dates.
FirstRuleMonths(workplace) ==
    IF PhrasePresent(workplace) THEN WorkDurationMonths(workplace.work_duration)
    ELSE IF CountPresent(workplace) THEN CountMonths(workplace)
    ELSE FromDates(workplace)

\* The phrase alone when it gives more than 0 months, else the count when it
\* is present, else the dates.
FallThroughMonths(workplace) ==
    IF PhrasePresent(workplace) /\ WorkDurationMonths(workplace.work_duration) > 0
    THEN WorkDurationMonths(workplace.work_duration)
    ELSE IF CountPresent(workplace) THEN CountMonths(workplace)
    ELSE FromDates(workplace)

RECURSIVE FirstRuleTotal(_)
FirstRuleTotal(workplaces) ==
    IF workplaces = <<>> THEN 0
    ELSE FirstRuleMonths(Head(workplaces)) + FirstRuleTotal(Tail(workplaces))

RECURSIVE FallThroughTotal(_)
FallThroughTotal(workplaces) ==
    IF workplaces = <<>> THEN 0
    ELSE FallThroughMonths(Head(workplaces)) + FallThroughTotal(Tail(workplaces))

ReturnedDuration == fn = "calculate_total_experience_duration"

EntryAlone(workplace) == calculate_total_experience_duration(<<workplace>>)

RECURSIVE SumAlone(_)
SumAlone(workplaces) ==
    IF workplaces = <<>> THEN 0
    ELSE EntryAlone(Head(workplaces)) + SumAlone(Tail(workplaces))

\* The years, as a fraction, and the months that a duration phrase states.
StatedYears(text) ==
    CASE text = TextTwoYears    -> <<2, 1>>
      [] text = TextYearsMonths -> <<3, 2>>
      [] OTHER                  -> <<0, 1>>

StatedMonths(text) ==
    CASE text = TextYearsMonths -> 3
      [] text = TextSixMonths   -> 6
      [] OTHER                  -> 0

\* years x 12 + months
StatedDuration(text) ==
    (StatedYears(text)[1] * 12) \div StatedYears(text)[2] + StatedMonths(text)

\* C11: the total_months returned is the sum over the entries of what each
\* entry contributes on its own; a duration phrase that states years and
\* months contributes years x 12 + months; "2 years" and "6 months" give 30.
C11_SumOfEntries ==
    ReturnedDuration =>
        /\ ret = SumAlone(args)
        /\ \A i \in DOMAIN args :
              (PhrasePresent(args[i]) /\ StatedDuration(args[i].work_duration) > 0)
                  => EntryAlone(args[i]) = StatedDuration(args[i].work_duration)
        /\ args = <<EntryTwoYears, EntrySixMonths>> => ret = 30

C11_Witness ==
    /\ ReturnedDuration
    /\ args = <<EntryTwoYears, EntrySixMonths>>
    /\ ret = 30

\* The phrase of the entry does not decide it.
PhraseUndecided(workplace) ==
    ~(PhrasePresent(workplace) /\ WorkDurationMonths(workplace.work_duration) > 0)

\* The month count an entry states, for the counts int() accepts.
HasStatedCount(workplace) ==
    \/ workplace.duration_months.type = "int"
    \/ workplace.duration_months = StrValue(TextSeven)

StatedCount(workplace) ==
    IF workplace.duration_months.type = "int" THEN workplace.duration_months.int
    ELSE 7

\* <<year, month>> of the well-formed dates.
StatedYearMonth(date) ==
    CASE date = Date2020Jan   -> <<2020, 1>>
      [] date = Date2020Jul   -> <<2020, 7>>
      [] date = Date2021Mar15 -> <<2021, 3>>
      [] date = Date2021Jul   -> <<2021, 7>>
      [] OTHER                -> <<0, 0>>

WellFormedDate(date) == StatedYearMonth(date) # <<0, 0>>

\* 12 x (end_year - start_year) + (end_month - start_month)
StatedDifference(start, end) ==
    12 * (StatedYearMonth(end)[1] - StatedYearMonth(start)[1])
       + (StatedYearMonth(end)[2] - StatedYearMonth(start)[2])

\* The entry is decided by its month count.
UsesCount(workplace) ==
    PhraseUndecided(workplace) /\ CountPresent(workplace) /\ HasStatedCount(workplace)

\* The entry is decided by its pair of dates.
UsesDates(workplace) ==
    /\ PhraseUndecided(workplace)
    /\ ~CountPresent(workplace)
    /\ DateKeys \subseteq workplace.keys
    /\ WellFormedDate(workplace.start_date)
    /\ WellFormedDate(workplace.end_date)

AtLeastZero(n) == IF n < 0 THEN 0 ELSE n

\* C12: no entry contributes a negative amount: a month count n that decides
\* the entry contributes max(0, n), a pair of dates that decides it
\* contributes max(0, 12 x (end_year - start_year) + (end_month -
\* start_month)), 2020-01 to 2021-07 gives 18, and the total is never negative.
C12_NeverNegative ==
    ReturnedDuration =>
        /\ ret >= 0
        /\ \A i \in DOMAIN args :
              /\ EntryAlone(args[i]) >= 0
              /\ UsesCount(args[i]) =>
                    EntryAlone(args[i]) = AtLeastZero(StatedCount(args[i]))
              /\ UsesDates(args[i]) =>
                    EntryAlone(args[i]) =
                        AtLeastZero(StatedDifference(args[i].start_date,
                                                     args[i].end_date))
        /\ args = <<EntryEighteen>> => ret = 18

\* A negative count next to dates that run backwards, then 18 months.
C12_Witness ==
    /\ ReturnedDuration
    /\ Len(args) = 2
    /\ args[1] \in {EntryCountNegative, EntryBackwards}
    /\ args[2] = EntryEighteen
    /\ ret = 18

\* The data of the rule that decides the entry cannot be read: a month count
\* int() rejects, or a date strptime rejects.
Malformed(workplace) ==
    /\ PhraseUndecided(workplace)
    /\ IF CountPresent(workplace)
       THEN IntOf(workplace.duration_months).raised
       ELSE /\ DateKeys \subseteq workplace.keys
            /\ \/ ParseDate(workplace.start_date).raised
               \/ ParseDate(workplace.end_date).raised

RECURSIVE SumWellFormed(_)
SumWellFormed(workplaces) ==
    IF workplaces = <<>> THEN 0
    ELSE (IF Malformed(Head(workplaces)) THEN 0
          ELSE FallThroughMonths(Head(workplaces)))
         + SumWellFormed(Tail(workplaces))

\* C13: calculate_total_experience_duration never raises on malformed
\* per-entry data: it returns, a malformed entry contributes 0 and every other
\* entry of the list contributes its full amount.
C13_NeverRaises ==
    fn # "none" =>
        /\ fn = "calculate_total_experience_duration"
        /\ ret = SumWellFormed(args)

\* ------------------------------------------------------------------------
\* Claims about the two year figures of save_experience (SpecYears)
\* ------------------------------------------------------------------------
\* floor() of a float held as <<whole, tenth>>.
FloorOf(years_float) == years_float[1]

Disagree(total_duration_months) ==
    ExperienceYearsInt(total_duration_months)
        # FloorOf(YearsFloat(total_duration_months))

\* C14 as stated: there is a total_months for which the integer years differ
\* from the floor of the float years.
C14_YearsCanDisagree ==
    fn = "none" => \E total_duration_months \in 1..MaxTotalMonths :
                      Disagree(total_duration_months)

\* C14: for every total_months the integer years (total_months / 12
\* truncated) equal the floor of the float years (total_months / 12 rounded
\* to one decimal): a whole number of months is at most 11/12 of a year past
\* a whole year, which rounds to .9.
C14_YearsAgree ==
    fn = "experience_years" =>
        /\ ret.experience_years = FloorOf(ret.experience_years_float)
        /\ ret.experience_years = args \div 12
        /\ (args % 12 = 11) => ret.experience_years_float[2] = 9

\* 119 months, one short of 10 years: 9.9 years and 9 whole years.
C14_Witness ==
    /\ fn = "experience_years"
    /\ args = 119
    /\ ret.experience_years = 9
    /\ ret.experience_years_float = <<9, 9>>

\* ------------------------------------------------------------------------
\* Claims about fuzzy_match_names (SpecNames)
\* ------------------------------------------------------------------------
\* Similarity ratios 2M/T of pairs of names, as difflib computes them.
KnownRatios ==
    {<<Name20A, Name20B, 34, 40>>, <<Name20A, Name20C, 32, 40>>,
     <<Name20B, Name20C, 38, 40>>, <<NameRameshK, NameRameshJ, 14, 16>>,
     <<NameRameshK, NameSureshK, 12, 16>>, <<NameSureshK, Name20A, 2, 28>>,
     <<NameRameshK, NameDigits, 0, 8>>}

\* ratio >= 0.85
AtLeastThreshold(similarity) == 17 * similarity[2] <= 20 * similarity[1]

\* C15: fuzzy_match_names returns (false, 0.0) when either input is empty;
\* otherwise (true, 1.0) when the two normalized names are equal; otherwise it
\* reports a match exactly when the similarity ratio is at least 0.85, the
\* boundary included.
C15_FuzzyMatch ==
    fn = "fuzzy_match_names" =>
        /\ (args[1] = <<>> \/ args[2] = <<>>) =>
              ret = [match |-> FALSE, similarity |-> <<0, 1>>]
        /\ (args[1] # <<>> /\ args[2] # <<>> /\
            normalize_name(args[1]) = normalize_name(args[2])) =>
              ret = [match |-> TRUE, similarity |-> <<1, 1>>]
        /\ (args[1] # <<>> /\ args[2] # <<>> /\
            normalize_name(args[1]) # normalize_name(args[2])) =>
              (ret.match <=> AtLeastThreshold(ret.similarity))
        /\ \A k \in KnownRatios :
              args = <<k[1], k[2]>> => ret.similarity = <<k[3], k[4]>>

\* Two names of 20 letters that share 17: the ratio is 0.85 and they match.
C15_Witness ==
    /\ fn = "fuzzy_match_names"
    /\ args = <<Name20A, Name20B>>
    /\ ret.similarity = <<34, 40>>
    /\ ret.match

\* ------------------------------------------------------------------------
\* Claims about exact_match_dob (SpecDob) and normalize_date
\* (SpecNormalizeDate)
\* ------------------------------------------------------------------------
\* The DD-MM-YYYY form of the dates of the harness; texts that are no date
\* stand for themselves with '/' written '-'.
StatedNormal(date) ==
    CASE date \in {Dob1987, Dob1987Short, DobIso, DobDotted, DobHyphenShort}
             -> <<"0","1","-","1","2","-","1","9","8","7">>
      [] date = Dob1987Off  -> <<"0","2","-","1","2","-","1","9","8","7">>
      [] date = DobTwoParts -> <<"1","2","-","1","9","8","7">>
      [] OTHER              -> date

\* C16: exact_match_dob reports a match exactly when both inputs are
\* non-empty and their normalized forms are the same string; dates that
\* differ in a digit after normalization do not match.
C16_ExactDob ==
    (fn = "exact_match_dob" /\ ~ret.raised) =>
        (ret.match <=>
            /\ args[1] # <<>>
            /\ args[2] # <<>>
            /\ StatedNormal(args[1]) = StatedNormal(args[2]))

\* "01-12-1987" and "1-12-87" match; the day after does not.
C16_Witness ==
    /\ fn = "exact_match_dob"
    /\ args = <<Dob1987, DobHyphenShort>>
    /\ ~ret.raised
    /\ ret.match
    /\ ~exact_match_dob(Dob1987, Dob1987Off).match

SeparatorCount(s) == Cardinality({i \in DOMAIN s : s[i] \in Separators})

\* The text does not split into exactly 3 parts on the separators.
NotThreeParts(date_str) == SeparatorCount(Strip(date_str)) # 2

\* C17: normalize_date returns its input unchanged, without raising, whenever
\* the input does not split into exactly 3 parts on the accepted separators.
C17_MalformedUnchanged ==
    (fn = "normalize_date" /\ NotThreeParts(args)) =>
        /\ ~ret.once.raised
        /\ ret.once.value = args

\* C18: for every valid date x, written day first (or year first),
\* normalize_date applied to normalize_date(x) gives normalize_date(x) again.
C18_Idempotent ==
    (fn = "normalize_date" /\ args \in DayFirstDates \cup YearFirstDates) =>
        /\ ~ret.once.raised
        /\ ~ret.twice.raised
        /\ ret.twice.value = ret.once.value

\* "1/2/87" becomes "01-02-1987" and stays so.
C18_Witness ==
    /\ fn = "normalize_date"
    /\ args = <<"1","/","2","/","8","7">>
    /\ ret.once.value = <<"0","1","-","0","2","-","1","9","8","7">>
    /\ ret.twice.value = ret.once.value

\* ------------------------------------------------------------------------
\* Properties of html_to_pdf (SpecPdf)
\* ------------------------------------------------------------------------
\* The browser attempt did not produce a PDF for html_to_pdf: the renderer was
\* unavailable, failed, or did not answer within the time waited for.
BrowserAttemptFailed ==
    \/ args.playwright # "%PDF"
    \/ (args.in_async /\ args.seconds > 60)

\* html_to_pdf reports failure: it returns False or raises.
ReportsFailure == ret.raised # "none" \/ ~ret.returned

Attempted(renderer) == \E i \in DOMAIN ret.attempted : ret.attempted[i] = renderer

\* C19: html_to_pdf attempts the browser renderer first; whenever that attempt
\* is unavailable or fails in any way it then attempts the library renderer;
\* and it reports failure only after both renderers were attempted and failed.
C19_BrowserThenLibrary ==
    fn = "html_to_pdf" =>
        /\ ret.attempted # <<>> /\ ret.attempted[1] = "playwright"
        /\ BrowserAttemptFailed =>
               /\ Len(ret.attempted) = 2 /\ ret.attempted[2] = "pisa"
        /\ ReportsFailure =>
               /\ Attempted("playwright") /\ Attempted("pisa")
               /\ BrowserAttemptFailed /\ args.pisa # "%PDF"

\* ------------------------------------------------------------------------
\* Properties of confirm_experience (SpecConfirm)
\* ------------------------------------------------------------------------
\* The rows and files that outlive the request.
PersistedState ==
    [work_experience |-> work_experience,
     sqlite_sequence |-> sqlite_sequence,
     cv_status       |-> cv_status,
     cv_files        |-> cv_files,
     embedding       |-> embedding]

\* C20: when the PDF backend fails during a request, the request reports the
\* failure and leaves no partial write: the persisted state is what it was
\* before the request started.
C20_NoPartialWrite ==
    (fn = "confirm_experience" /\ ret.status_code = 500) =>
        PersistedState = args.before

\* ------------------------------------------------------------------------
\* Properties of get_ocr_instance (SpecOcr)
\* ------------------------------------------------------------------------
\* C21: the process-wide OCR engine handle is initialized at most once per
\* process and reused by every later call, also when several worker threads
\* call get_ocr_instance at the same time: no second engine is ever made,
\* and no call returns another engine than the first.
C21_InitializedOnce ==
    /\ ocr_instance.constructed <= 1
    /\ \A t \in DOMAIN threads : threads[t].ret \in {0, 1}

\* ------------------------------------------------------------------------
\* Names that normalize to the empty string (SpecNames)
\* ------------------------------------------------------------------------
IsLatinLetter(c) ==
    \/ \E i \in DOMAIN UpperLetters : UpperLetters[i] = c
    \/ \E i \in DOMAIN LowerLetters : LowerLetters[i] = c

\* The name has no Latin letter, so normalize_name leaves nothing of it.
NormalizesToEmpty(name) == \A i \in DOMAIN name : ~IsLatinLetter(name[i])

\* C26: fuzzy_match_names never reports a match when either name normalizes
\* to the empty string, so two names without Latin letters are never treated
\* as the same identity.
C26_EmptyNeverMatches ==
    (fn = "fuzzy_match_names"
        /\ (NormalizesToEmpty(args[1]) \/ NormalizesToEmpty(args[2]))) =>
        ~ret.match

\* ------------------------------------------------------------------------
\* Deleting everything (Spec)
\* ------------------------------------------------------------------------
\* C23: deleting a worker's data with data_type `both` clears everything
\* except worker_id and mobile_number: afterwards the worker has no personal
\* identity, documents, experience or sessions, and every other stored field
\* of the worker, verification_status and verification_errors included, is
\* back at its initial value.
C23_DeleteBothClearsAll ==
    [][delete_all_data =>
          /\ worker' = InitWorker
          /\ docs' = <<>>
          /\ work_experience' = <<>>
          /\ pending' = NoPending
          /\ experience_session' = NoExperienceSession
          /\ ~(voice_session'.exists /\ voice_session'.worker_id)]_vars

\* ------------------------------------------------------------------------
\* A verified worker and its documents (Spec)
\* ------------------------------------------------------------------------
\* No request is running and none was cut short by a crash.
AtRest == Idle /\ ~crashed

\* C24: whenever no verification write is in progress, a worker stored as
\* verified has at least one education document and every one of its
\* education documents is stored as verified, after any sequence of document
\* saves, verifications and deletes.
C24_VerifiedWorkerVerifiedDocs ==
    (AtRest /\ worker.verification_status = "verified") =>
        /\ docs # <<>>
        /\ \A i \in DOMAIN docs : docs[i].verification_status = "verified"

\* ------------------------------------------------------------------------
\* C25: saving one educational document with
\* save_educational_document_with_llm_data adds one record holding that
\* document's extracted identity and leaves the worker's other education
\* documents as they were.
\* ------------------------------------------------------------------------
C25_SaveKeepsOtherDocuments ==
    [][upsert_document =>
         /\ Len(docs') = Len(docs) + 1
         /\ \A i \in DOMAIN docs : docs'[i] = docs[i]]_vars

\* ------------------------------------------------------------------------
\* C29: a worker stored as failed stays failed, whatever is read, until its
\* personal or educational data is changed or deleted, and every such change
\* or deletion stores the status pending.
\* ------------------------------------------------------------------------
PersonalData(w) ==
    <<w.name, w.dob, w.address, w.personal_extracted_name,
      w.personal_extracted_dob>>

EducationalData(ds) ==
    [i \in DOMAIN ds |->
       <<ds[i].qualification, ds[i].extracted_name, ds[i].extracted_dob>>]

DataChanged ==
    \/ PersonalData(worker') # PersonalData(worker)
    \/ EducationalData(docs') # EducationalData(docs)

WritesData ==
    DataChanged \/ update_workers \/ set_extracted \/ delete_document_data

C29_FailedUntilDataChanges ==
    [][worker.verification_status = "failed" =>
         \/ worker'.verification_status = "failed" /\ ~DataChanged
         \/ worker'.verification_status = "pending" /\ WritesData]_vars

\* ------------------------------------------------------------------------
\* C28: extract_experience saves an experience record only for a chat
\* session whose status is completed; a session becomes completed only by
\* the accepted answer to question 5, after the answers to questions 0 to 4
\* were accepted one at a time; chat_message leaves a declined or completed
\* session unchanged and rejects the message.
\* ------------------------------------------------------------------------
AllAnswered == {SYSTEM_QUESTIONS[i] : i \in DOMAIN SYSTEM_QUESTIONS}

C28_ChatSessionGates ==
    [][/\ (extract_experience /\ experience_session.status # "completed")
            => UNCHANGED <<work_experience, sqlite_sequence>>
       /\ (chat_message /\ experience_session'.current_question
                              # experience_session.current_question)
            => /\ experience_session'.current_question
                     = experience_session.current_question + 1
               /\ experience_session'.raw_conversation
                     = experience_session.raw_conversation
                          \cup {SYSTEM_QUESTIONS[experience_session.current_question + 1]}
       /\ (experience_session'.status = "completed"
              /\ experience_session.status # "completed")
            => /\ chat_message
               /\ experience_session.current_question = 5
               /\ experience_session'.raw_conversation = AllAnswered
       /\ (chat_message /\ experience_session.status \in {"declined", "completed"})
            => /\ experience_session' = experience_session
               /\ ret'.status_code = 400]_vars

C28_Witness ==
    /\ fn = "extract_experience"
    /\ work_experience # <<>>
    /\ experience_session.status = "completed"
    /\ experience_session.current_question = 6

\* ------------------------------------------------------------------------
\* C30: save_experience calls for one worker that run concurrently leave at
\* most one experience record for the worker, and once they have all
\* committed the record holds the data of the call that committed last.
\* ------------------------------------------------------------------------
LastWriterColumns(t) ==
    ExperienceColumns(threads[t].experience_data,
                      calculate_total_experience_duration(
                          threads[t].experience_data.workplaces))

C30_LastWriterWins ==
    /\ Len(work_experience) <= 1
    /\ \A t \in Committed :
          (Committed = DOMAIN threads /\ threads[t].committed = Len(threads))
             => work_experience
                   = <<ExperienceRow(work_experience[1].id, LastWriterColumns(t))>>

\* ------------------------------------------------------------------------
\* C22: confirm_experience writes work_experience and goes on to generate a
\* CV only when the voice session's exp_ready is set; without it the request
\* is rejected and nothing is written.  While exp_ready is set, neither
\* submit_transcript nor the call-link endpoint writes work_experience.
\* ------------------------------------------------------------------------
ConfirmRequest == confirm_experience \/ confirm_experience_rejected

ExperienceWritten ==
    work_experience' # work_experience \/ sqlite_sequence' # sqlite_sequence

WebhookStep == Idle /\ fn' = "voice_webhook"

C27_StepMonotone ==
    [][/\ voice_session'.current_step \in 0..4
       /\ voice_session'.current_step >= voice_session.current_step
       /\ (WebhookStep /\ Len(args') < 2)
            => voice_session'.current_step = voice_session.current_step
       /\ (WebhookStep /\ Len(args') >= 2)
            => voice_session'.current_step
                  = IF voice_session.current_step < 4
                    THEN voice_session.current_step + 1 ELSE 4]_vars

C27_Witness ==
    /\ fn = "voice_webhook"
    /\ Len(args) < 2
    /\ voice_session.exists
    /\ voice_session.current_step = 3

====
